---- MODULE Spec2Model ----
(***************************************************************************)
(* refstr: paths of keys / fields / indices over Go values, read with      *)
(* Path.Get and written with Path.Set (auto-creating what is missing).     *)
(*                                                                         *)
(* Go values live in a heap of cells, as they do under package reflect:    *)
(* a reflect.Value is a location (cell, selector path) with its type and   *)
(* its addressable ("CanSet") flag.  Pointers, maps and slices hold the    *)
(* address of another cell; structs and arrays are stored inline.          *)
(* The user's root value is kept between operations as a tree ("deep"      *)
(* value): roots are alias-free, every container is reached by one path.   *)
(***************************************************************************)
EXTENDS Integers, Sequences, FiniteSets, TLC

(***************************************************************************)
(* Bounds of the model.                                                    *)
(***************************************************************************)
\* largest sequence index offered to Next on a growable sequence
MaxIdx == 2
\* longest key list handed to Ref.Nexts
MaxNexts == 2

\* longest sequence handed to the decoder's round trip
MaxLen == 2

\* most calls of GetTypeNodes in progress at once, one inside the other
MaxDepth == 4

(***************************************************************************)
(* The types of the test programs (part_002 / README), by their Go names.  *)
(***************************************************************************)
\* v := x; F(v): a local of the code, evaluated once
Let(x, F(_)) == F(x)

Fld(n, t, anon) == [Name |-> n, Type |-> t, Anonymous |-> anon]

\* reflect.Type: Kind, Elem, Key, Len, Field(i)
TypeInfo(t) ==
    CASE t = "int"    -> [kind |-> "int"]
      [] t = "string" -> [kind |-> "string"]
      [] t = "name"   -> [kind |-> "struct",
                          fields |-> <<Fld("First", "string", FALSE), Fld("Last", "string", FALSE)>>]
      [] t = "person" -> [kind |-> "struct", fields |-> <<Fld("Name", "name", FALSE)>>]
      [] t = "persons" -> [kind |-> "struct",
                           fields |-> <<Fld("ByName", "map[string]person", FALSE)>>]
      [] t = "point"  -> [kind |-> "struct",
                          fields |-> <<Fld("X", "int", FALSE), Fld("Y", "int", FALSE)>>]
      [] t = "outer"  -> [kind |-> "struct",
                          fields |-> <<Fld("In", "point", FALSE), Fld("P", "*point", FALSE)>>]
      [] t = "shape"  -> [kind |-> "struct", fields |-> <<Fld("Origin", "point", FALSE)>>]
      [] t = "widget" -> [kind |-> "struct", fields |-> <<Fld("Pos", "func() point", FALSE)>>]
      [] t = "func() point" -> [kind |-> "func", NumIn |-> 0, NumOut |-> 1, Out |-> "point"]
      [] t = "base"   -> [kind |-> "struct",
                          fields |-> <<Fld("ID", "int", FALSE), Fld("Tag", "string", FALSE)>>]
      [] t = "derived" -> [kind |-> "struct",
                           fields |-> <<Fld("Tag", "string", FALSE), Fld("base", "base", TRUE),
                                        Fld("Extra", "int", FALSE)>>]
      [] t = "deep"   -> [kind |-> "struct",
                          fields |-> <<Fld("derived", "derived", TRUE), Fld("Z", "int", FALSE)>>]
      [] t = "ringA"  -> [kind |-> "struct",
                          fields |-> <<Fld("ringB", "*ringB", TRUE), Fld("X", "int", FALSE)>>]
      [] t = "ringB"  -> [kind |-> "struct",
                          fields |-> <<Fld("Y", "int", FALSE), Fld("ringA", "*ringA", TRUE)>>]
      [] t = "bag"    -> [kind |-> "struct", fields |-> <<Fld("Items", "[]int", FALSE)>>]
      [] t = "crate"  -> [kind |-> "struct", fields |-> <<Fld("Bag", "*bag", FALSE)>>]
      [] t = "self"   -> [kind |-> "struct",
                          fields |-> <<Fld("self", "*self", TRUE), Fld("X", "int", FALSE)>>]
      [] t = "loop"   -> [kind |-> "func", NumIn |-> 0, NumOut |-> 1, Out |-> "loop"]
      [] t = "scores" -> [kind |-> "map", key |-> "string", elem |-> "int"]
      [] t = "map[string]person" -> [kind |-> "map", key |-> "string", elem |-> "person"]
      [] t = "map[string]*point" -> [kind |-> "map", key |-> "string", elem |-> "*point"]
      [] t = "map[string]int"    -> [kind |-> "map", key |-> "string", elem |-> "int"]
      [] t = "map[string][]int"  -> [kind |-> "map", key |-> "string", elem |-> "[]int"]
      [] t = "bool"     -> [kind |-> "bool"]
      [] t = "[]int"    -> [kind |-> "slice", elem |-> "int"]
      [] t = "[]string" -> [kind |-> "slice", elem |-> "string"]
      [] t = "[]bool"   -> [kind |-> "slice", elem |-> "bool"]
      [] t = "[][]int"  -> [kind |-> "slice", elem |-> "[]int"]
      [] t = "[]point"  -> [kind |-> "slice", elem |-> "point"]
      [] t = "[2]int"   -> [kind |-> "array", elem |-> "int", len |-> 2]
      [] t = "*persons" -> [kind |-> "ptr", elem |-> "persons"]
      [] t = "*name"    -> [kind |-> "ptr", elem |-> "name"]
      [] t = "*base"    -> [kind |-> "ptr", elem |-> "base"]
      [] t = "*derived" -> [kind |-> "ptr", elem |-> "derived"]
      [] t = "*deep"    -> [kind |-> "ptr", elem |-> "deep"]
      [] t = "*ringA"   -> [kind |-> "ptr", elem |-> "ringA"]
      [] t = "*ringB"   -> [kind |-> "ptr", elem |-> "ringB"]
      [] t = "*point"   -> [kind |-> "ptr", elem |-> "point"]
      [] t = "*outer"   -> [kind |-> "ptr", elem |-> "outer"]
      [] t = "*shape"   -> [kind |-> "ptr", elem |-> "shape"]
      [] t = "*widget"  -> [kind |-> "ptr", elem |-> "widget"]
      [] t = "*scores"  -> [kind |-> "ptr", elem |-> "scores"]
      [] t = "*self"    -> [kind |-> "ptr", elem |-> "self"]
      [] t = "*bag"     -> [kind |-> "ptr", elem |-> "bag"]
      [] t = "*crate"   -> [kind |-> "ptr", elem |-> "crate"]
      [] t = "*[]int"   -> [kind |-> "ptr", elem |-> "[]int"]
      [] t = "*[]point" -> [kind |-> "ptr", elem |-> "[]point"]
      [] t = "*[2]int"  -> [kind |-> "ptr", elem |-> "[2]int"]
      [] t = "*map[string]int"    -> [kind |-> "ptr", elem |-> "map[string]int"]
      [] t = "*map[string]*point" -> [kind |-> "ptr", elem |-> "map[string]*point"]
      [] t = "*map[string][]int"  -> [kind |-> "ptr", elem |-> "map[string][]int"]
      [] OTHER -> [kind |-> "invalid"]

Kind(t) == TypeInfo(t).kind

\* reflect.PointerTo
PointerToType(t) == "*" \o t

Mth(n, onPtr, nin, in, nout, out) ==
    [Name |-> n, PtrRecv |-> onPtr, NumIn |-> nin, In |-> in, NumOut |-> nout, Out |-> out]

\* the methods declared on a named type, in name order (reflect sorts them):
\* name.Full, point.Set and point.Sum of part_002, and a shape whose setter
\* takes a record and whose getter returns one
Declared(t) ==
    CASE t = "name"  -> <<Mth("Full", FALSE, 0, "", 1, "string")>>
      [] t = "point" -> <<Mth("Set", TRUE, 1, "int", 0, ""), Mth("Sum", FALSE, 0, "", 1, "int")>>
      [] t = "shape" -> <<Mth("Center", FALSE, 0, "", 1, "point"),
                          Mth("Move", TRUE, 1, "point", 0, "")>>
      [] t = "scores" -> <<Mth("Len", FALSE, 0, "", 1, "int")>>
      [] OTHER -> <<>>

\* reflect.Type.NumMethod / Method(i): the method set of T holds the value
\* receiver methods, that of *T the methods of both receiver kinds
MethodSet(t) ==
    IF Kind(t) = "ptr"
    THEN Declared(TypeInfo(t).elem)
    ELSE SelectSeq(Declared(t), LAMBDA m : ~m.PtrRecv)

(***************************************************************************)
(* Values.  Heap form: pointers, maps and slices carry an address (0 is    *)
(* nil).  Deep form: they carry what they point at.                        *)
(***************************************************************************)
IntV(n) == [k |-> "int", n |-> n]
StrV(s) == [k |-> "str", s |-> s]
BoolV(b) == [k |-> "bool", b |-> b]
NilKey == [k |-> "nil"]

RECURSIVE Zero(_)
\* reflect.Zero / the value reflect.New points at
Zero(t) ==
    Let(TypeInfo(t), LAMBDA ti :
        CASE ti.kind = "int"    -> IntV(0)
          [] ti.kind = "string" -> StrV("")
          [] ti.kind = "bool"   -> BoolV(FALSE)
          [] ti.kind = "func"   -> [k |-> "func", nil |-> TRUE]
          [] ti.kind = "struct" -> [k |-> "struct",
                                    f |-> [i \in 1..Len(ti.fields) |-> Zero(ti.fields[i].Type)]]
          [] ti.kind = "array"  -> [k |-> "array", e |-> [i \in 1..ti.len |-> Zero(ti.elem)]]
          [] ti.kind = "ptr"    -> [k |-> "ptr", a |-> 0]
          [] ti.kind = "map"    -> [k |-> "map", a |-> 0]
          [] ti.kind = "slice"  -> [k |-> "slice", a |-> 0, len |-> 0])

RECURSIVE Deep(_, _)
\* the tree a heap value stands for
Deep(h, v) ==
    CASE v.k = "struct" -> [k |-> "struct", f |-> [i \in 1..Len(v.f) |-> Deep(h, v.f[i])]]
      [] v.k = "array"  -> [k |-> "array", e |-> [i \in 1..Len(v.e) |-> Deep(h, v.e[i])]]
      [] v.k = "ptr"    -> IF v.a = 0 THEN [k |-> "ptr", nil |-> TRUE]
                           ELSE [k |-> "ptr", nil |-> FALSE, v |-> Deep(h, h[v.a])]
      [] v.k = "map"    -> IF v.a = 0 THEN [k |-> "map", nil |-> TRUE]
                           ELSE [k |-> "map", nil |-> FALSE,
                                 m |-> [x \in DOMAIN h[v.a].m |-> Deep(h, h[v.a].m[x])]]
      [] v.k = "slice"  -> IF v.a = 0 THEN [k |-> "slice", nil |-> TRUE]
                           ELSE [k |-> "slice", nil |-> FALSE,
                                 e |-> [i \in 1..v.len |-> Deep(h, h[v.a].e[i])]]
      [] OTHER -> v

\* a new cell at the end of the heap
Alloc(h, cell) == [h |-> Append(h, cell), a |-> Len(h) + 1]

RECURSIVE Mat(_, _)
RECURSIVE MatSeq(_, _)
RECURSIVE MatMap(_, _, _)
\* the heap value of a tree, its containers allocated in h: [h, v]
Mat(h, d) ==
    CASE d.k = "struct" ->
            Let(MatSeq(h, d.f), LAMBDA r : [h |-> r.h, v |-> [k |-> "struct", f |-> r.vs]])
      [] d.k = "array"  ->
            Let(MatSeq(h, d.e), LAMBDA r : [h |-> r.h, v |-> [k |-> "array", e |-> r.vs]])
      [] d.k = "ptr"    ->
            IF d.nil THEN [h |-> h, v |-> [k |-> "ptr", a |-> 0]]
            ELSE Let(Mat(h, d.v), LAMBDA r :
                 Let(Alloc(r.h, r.v), LAMBDA c : [h |-> c.h, v |-> [k |-> "ptr", a |-> c.a]]))
      [] d.k = "map"    ->
            IF d.nil THEN [h |-> h, v |-> [k |-> "map", a |-> 0]]
            ELSE Let(MatMap(h, d.m, DOMAIN d.m), LAMBDA r :
                 Let(Alloc(r.h, [k |-> "mapobj", m |-> r.m]), LAMBDA c :
                     [h |-> c.h, v |-> [k |-> "map", a |-> c.a]]))
      [] d.k = "slice"  ->
            IF d.nil THEN [h |-> h, v |-> [k |-> "slice", a |-> 0, len |-> 0]]
            ELSE Let(MatSeq(h, d.e), LAMBDA r :
                 Let(Alloc(r.h, [k |-> "array", e |-> r.vs]), LAMBDA c :
                     [h |-> c.h, v |-> [k |-> "slice", a |-> c.a, len |-> Len(d.e)]]))
      [] OTHER -> [h |-> h, v |-> d]

MatSeq(h, ds) ==
    IF Len(ds) = 0 THEN [h |-> h, vs |-> <<>>]
    ELSE Let(MatSeq(h, SubSeq(ds, 1, Len(ds) - 1)), LAMBDA r :
         Let(Mat(r.h, ds[Len(ds)]), LAMBDA x : [h |-> x.h, vs |-> Append(r.vs, x.v)]))

MatMap(h, m, keys) ==
    IF keys = {} THEN [h |-> h, m |-> <<>>]
    ELSE Let(CHOOSE x \in keys : TRUE, LAMBDA key :
         Let(MatMap(h, m, keys \ {key}), LAMBDA r :
         Let(Mat(r.h, m[key]), LAMBDA x : [h |-> x.h, m |-> (key :> x.v) @@ r.m])))

(***************************************************************************)
(* package reflect, as far as the library uses it.  A reflect.Value is     *)
(* [valid, panic, a, p, cs, t]: cell a, selectors p inside the cell,       *)
(* cs = CanSet, t = its type.  panic marks the result of a call that       *)
(* panicked.                                                               *)
(***************************************************************************)
RV(a, p, cs, t) == [valid |-> TRUE, panic |-> FALSE, a |-> a, p |-> p, cs |-> cs, t |-> t]

\* var invalidValue = reflect.Value{}
invalidValue == [valid |-> FALSE, panic |-> FALSE, a |-> 0, p |-> <<>>, cs |-> FALSE, t |-> ""]

PanicRV == [valid |-> FALSE, panic |-> TRUE, a |-> 0, p |-> <<>>, cs |-> FALSE, t |-> ""]

RECURSIVE Sel(_, _)
Sel(v, p) ==
    IF p = <<>> THEN v
    ELSE Sel(IF v.k = "struct" THEN v.f[Head(p)] ELSE v.e[Head(p)], Tail(p))

RECURSIVE Upd(_, _, _)
Upd(v, p, x) ==
    IF p = <<>> THEN x
    ELSE IF v.k = "struct" THEN [v EXCEPT !.f[Head(p)] = Upd(@, Tail(p), x)]
    ELSE [v EXCEPT !.e[Head(p)] = Upd(@, Tail(p), x)]

\* the Go value a reflect.Value views
Load(h, rv) == Sel(h[rv.a], rv.p)

\* the heap after an assignment through a reflect.Value
Store(h, rv, x) == [h EXCEPT ![rv.a] = Upd(@, rv.p, x)]

\* reflect.Value.Elem of a pointer: the zero Value when it is nil
Elem(h, rv) ==
    IF Load(h, rv).a = 0 THEN invalidValue
    ELSE RV(Load(h, rv).a, <<>>, TRUE, TypeInfo(rv.t).elem)

\* reflect.Value.IsNil
IsNil(h, rv) == Load(h, rv).a = 0

\* the kinds reflect.Value.IsNil accepts, of those modelled
Nilable(t) == Kind(t) \in {"ptr", "map", "slice"}

\* reflect.Value.Field(i), i from 0: panics unless rv is a struct with a field i
Field(h, rv, i) ==
    IF rv.valid /\ Kind(rv.t) = "struct" /\ i >= 0 /\ i < Len(TypeInfo(rv.t).fields)
    THEN RV(rv.a, Append(rv.p, i + 1), rv.cs, TypeInfo(rv.t).fields[i + 1].Type)
    ELSE PanicRV

\* reflect.Value.Len of an array or a slice (-1: the call panics)
LenRv(h, rv) ==
    IF ~rv.valid THEN -1
    ELSE IF Kind(rv.t) = "array" THEN TypeInfo(rv.t).len
    ELSE IF Kind(rv.t) = "slice" THEN Load(h, rv).len
    ELSE -1

\* reflect.Value.Index(i): an element of a slice is always addressable, one
\* of an array is when the array is; out of range panics
Index(h, rv, i) ==
    IF i < 0 \/ i >= LenRv(h, rv) THEN PanicRV
    ELSE IF Kind(rv.t) = "array"
    THEN RV(rv.a, Append(rv.p, i + 1), rv.cs, TypeInfo(rv.t).elem)
    ELSE RV(Load(h, rv).a, <<i + 1>>, TRUE, TypeInfo(rv.t).elem)

\* whether a key value may index a map of type t
KeyFits(t, key) ==
    \/ TypeInfo(t).key = "string" /\ key.k = "str"
    \/ TypeInfo(t).key = "int" /\ key.k = "int"

RawKey(key) == IF key.k = "str" THEN key.s ELSE key.n

\* reflect.Value.MapIndex: a copy of the entry (not addressable), the zero
\* Value when the key is absent or the map nil: [h, rv]
MapIndex(h, rv, key) ==
    IF ~rv.valid \/ Kind(rv.t) # "map" \/ ~KeyFits(rv.t, key) THEN [h |-> h, rv |-> PanicRV]
    ELSE Let(Load(h, rv), LAMBDA v :
         IF v.a = 0 \/ RawKey(key) \notin DOMAIN h[v.a].m THEN [h |-> h, rv |-> invalidValue]
         ELSE Let(Alloc(h, h[v.a].m[RawKey(key)]), LAMBDA c :
                  [h |-> c.h, rv |-> RV(c.a, <<>>, FALSE, TypeInfo(rv.t).elem)]))

\* reflect.Value.SetMapIndex: panics on a nil map: [h, err]
SetMapIndex(h, rv, key, val) ==
    IF ~rv.valid \/ Kind(rv.t) # "map" \/ ~KeyFits(rv.t, key) THEN [h |-> h, err |-> "panic"]
    ELSE Let(Load(h, rv), LAMBDA v :
         IF v.a = 0 THEN [h |-> h, err |-> "panic"]
         ELSE IF ~val.valid
         THEN [h |-> [h EXCEPT ![v.a].m = [x \in (DOMAIN @) \ {RawKey(key)} |-> @[x]]],
               err |-> "nil"]
         ELSE IF val.t # TypeInfo(rv.t).elem THEN [h |-> h, err |-> "panic"]
         ELSE [h |-> [h EXCEPT ![v.a].m = (RawKey(key) :> Load(h, val)) @@ @], err |-> "nil"])

\* reflect.Value.Set: panics unless rv is settable and val of its type: [h, err]
SetRv(h, rv, val) ==
    IF rv.valid /\ rv.cs /\ val.valid /\ val.t = rv.t
    THEN [h |-> Store(h, rv, Load(h, val)), err |-> "nil"]
    ELSE [h |-> h, err |-> "panic"]

\* reflect.New(t).Elem(): a new addressable zero value: [h, rv]
NewElem(h, t) ==
    Let(Alloc(h, Zero(t)), LAMBDA c : [h |-> c.h, rv |-> RV(c.a, <<>>, TRUE, t)])

\* AppendZero with the old elements left behind: the new array holds zero values only
AppendZero_NoCopy(h, c) ==
    Let(Load(h, c), LAMBDA v :
    Let(Alloc(h, [k |-> "array", e |-> [j \in 1..v.len + 1 |-> Zero(TypeInfo(c.t).elem)]]), LAMBDA b :
        Store(b.h, c, [k |-> "slice", a |-> b.a, len |-> v.len + 1])))

\* c.Set(reflect.Append(c, reflect.New(c.Type().Elem()).Elem())): the elements
\* move to a new backing array with one zero element more
AppendZero(h, c) ==
    Let(Load(h, c), LAMBDA v :
    Let(IF v.a = 0 THEN <<>> ELSE SubSeq(h[v.a].e, 1, v.len), LAMBDA old :
    Let(Alloc(h, [k |-> "array", e |-> Append(old, Zero(TypeInfo(c.t).elem))]), LAMBDA b :
        Store(b.h, c, [k |-> "slice", a |-> b.a, len |-> v.len + 1]))))

(***************************************************************************)
(* The methods of the test types.                                          *)
(***************************************************************************)
\* the receiver a method body sees: a value receiver called through a
\* pointer is dereferenced
Receiver(h, rv, m) ==
    IF Kind(rv.t) = "ptr" /\ ~m.PtrRecv THEN Elem(h, rv) ELSE rv

\* func (n name) Full() string, func (p point) Sum() int,
\* func (s shape) Center() point, func (s scores) Len() int
CallGetter(h, m, recv) ==
    Let(Load(h, recv), LAMBDA v :
        CASE m.Name = "Full" -> StrV(v.f[2].s \o ", " \o v.f[1].s)
          [] m.Name = "Sum"  -> IntV(v.f[1].n + v.f[2].n)
          [] m.Name = "Center" -> v.f[1]
          [] m.Name = "Len" -> IntV(IF v.a = 0 THEN 0 ELSE Cardinality(DOMAIN h[v.a].m)))

\* func (p *point) Set(v int), func (s *shape) Move(p point)
CallSetter(h, m, recv, val) ==
    Let(Elem(h, recv), LAMBDA p :
    Let(Load(h, val), LAMBDA v :
        CASE m.Name = "Set" -> Store(Store(h, Field(h, p, 0), v), Field(h, p, 1), v)
          [] m.Name = "Move" -> Store(h, Field(h, p, 0), v)))

\* rv.Call([]reflect.Value{})[0] of a func value, which holds what it returns: [h, rv]
FuncCall(h, rv) ==
    IF ~rv.valid \/ Kind(rv.t) # "func" THEN [h |-> h, rv |-> PanicRV]
    ELSE IF Load(h, rv).nil THEN [h |-> h, rv |-> PanicRV]
    ELSE Let(Alloc(h, Load(h, rv).out), LAMBDA c :
             [h |-> c.h, rv |-> RV(c.a, <<>>, FALSE, TypeInfo(rv.t).Out)])

\* rv.Method(i).Call([]reflect.Value{})[0]: [h, rv]
MethodCallGet(h, rv, i) ==
    IF ~rv.valid \/ i >= Len(MethodSet(rv.t)) THEN [h |-> h, rv |-> PanicRV]
    ELSE Let(MethodSet(rv.t)[i + 1], LAMBDA m :
         Let(Receiver(h, rv, m), LAMBDA recv :
             IF m.NumIn # 0 \/ m.NumOut = 0 \/ ~recv.valid THEN [h |-> h, rv |-> PanicRV]
             ELSE Let(Alloc(h, CallGetter(h, m, recv)), LAMBDA c :
                      [h |-> c.h, rv |-> RV(c.a, <<>>, FALSE, m.Out)])))

\* rv.Method(i).Call([]reflect.Value{val}): [h, err]
MethodCallSet(h, rv, i, val) ==
    IF ~rv.valid \/ i >= Len(MethodSet(rv.t)) THEN [h |-> h, err |-> "panic"]
    ELSE Let(MethodSet(rv.t)[i + 1], LAMBDA m :
         Let(Receiver(h, rv, m), LAMBDA recv :
             IF m.NumIn # 1 \/ ~val.valid \/ val.t # m.In \/ ~recv.valid
                \/ (m.PtrRecv /\ IsNil(h, recv))
             THEN [h |-> h, err |-> "panic"]
             ELSE [h |-> CallSetter(h, m, recv, val), err |-> "nil"]))

(***************************************************************************)
(* Node / Nodes and the type descriptor cache (part_000).                  *)
(***************************************************************************)
\* a NodeGet / NodeSet: which accessor, and the field or method index it closes over
Fn(f, i) == [f |-> f, i |-> i]
NoFn == Fn("nil", 0)

\* type Node struct
Node(ks, key, kt, t, co, get, set) ==
    [KeyString |-> ks, Key |-> key, KeyType |-> kt, Type |-> t, CopyOnly |-> co,
     Get |-> get, Set |-> set]

Digit(d) ==
    CASE d = 0 -> "0" [] d = 1 -> "1" [] d = 2 -> "2" [] d = 3 -> "3" [] d = 4 -> "4"
      [] d = 5 -> "5" [] d = 6 -> "6" [] d = 7 -> "7" [] d = 8 -> "8" [] d = 9 -> "9"

RECURSIVE ItoaNat(_)
ItoaNat(n) == IF n < 10 THEN Digit(n) ELSE ItoaNat(n \div 10) \o Digit(n % 10)

\* strconv.Itoa
Itoa(i) == IF i < 0 THEN "-" \o ItoaNat(-i) ELSE ItoaNat(i)

\* fmt.Sprintf("%+v", a) of a key: a string is itself, an int its decimal
ToStringV(key) ==
    CASE key.k = "str" -> key.s
      [] key.k = "int" -> Itoa(key.n)
      [] OTHER -> "<nil>"

IsDynamic(n) == n.Key = NilKey /\ n.KeyString = ""

\* func (n Node) ForKey(key any) Node
NodeForKey(n, key) ==
    IF ~IsDynamic(n) THEN n
    ELSE [n EXCEPT !.Key = key, !.KeyString = ToStringV(key)]

\* NewNodes(nil)
EmptyNodes == [InOrder |-> <<>>, ByKey |-> <<>>]

\* Add without the test for a key string that is present already
Add_Always(nodes, n) ==
    [InOrder |-> Append(nodes.InOrder, n), ByKey |-> (n.KeyString :> n) @@ nodes.ByKey]

\* func (nodes *Nodes) Add(n Node)
Add(nodes, n) ==
    IF n.KeyString \in DOMAIN nodes.ByKey THEN nodes
    ELSE [InOrder |-> Append(nodes.InOrder, n), ByKey |-> (n.KeyString :> n) @@ nodes.ByKey]

RECURSIVE AddAll(_, _)
AddAll(nodes, ns) ==
    IF ns = <<>> THEN nodes ELSE AddAll(Add(nodes, Head(ns)), Tail(ns))

\* func NewNodes(initial []Node) *Nodes
NewNodes(initial) == AddAll(EmptyNodes, initial)

\* func (nodes Nodes) Clone() *Nodes
Clone(nodes) == NewNodes(nodes.InOrder)

\* func (nodes Nodes) ForKey(key any) *Node: [ok, node], ok = FALSE for nil
ForKey(nodes, key) ==
    IF Len(nodes.InOrder) = 1 /\ IsDynamic(nodes.InOrder[1])
    THEN [ok |-> TRUE, node |-> NodeForKey(nodes.InOrder[1], key)]
    ELSE IF ToStringV(key) \in DOMAIN nodes.ByKey
    THEN [ok |-> TRUE, node |-> nodes.ByKey[ToStringV(key)]]
    ELSE [ok |-> FALSE, node |-> Node("", NilKey, "", "", FALSE, NoFn, NoFn)]

\* func (nodes Nodes) KeyStrings() []string: the keys of the nodes that are not dynamic
NodesKeyStrings(nodes) ==
    Let(SelectSeq(nodes.InOrder, LAMBDA n : ~IsDynamic(n)), LAMBDA q :
        [i \in 1..Len(q) |-> q[i].KeyString])

\* func IsGetter(rt, forType) of a method: no argument besides the receiver, one result
IsGetter(m) == m.NumIn = 0 /\ m.NumOut = 1

\* func IsSetter(rt, forType) of a method: one argument, no result or an error
IsSetter(m) == m.NumIn = 1 /\ (m.NumOut = 0 \/ (m.NumOut = 1 /\ m.Out = "error"))

\* the loop body giving a getter's node a write function as well
MethodNode_Settable(t, nodes, i) ==
    Let(MethodSet(t)[i + 1], LAMBDA m :
        IF IsGetter(m)
        THEN Add(nodes, Node(m.Name, StrV(m.Name), "string", m.Out, FALSE, Fn("method", i),
                              Fn("method", i)))
        ELSE IF IsSetter(m)
        THEN Add(nodes, Node(m.Name, StrV(m.Name), "string", m.In, FALSE, NoFn, Fn("method", i)))
        ELSE nodes)

\* the body of the loop of addMethodNodes for method i
MethodNode(t, nodes, i) ==
    Let(MethodSet(t)[i + 1], LAMBDA m :
        IF IsGetter(m)
        THEN Add(nodes, Node(m.Name, StrV(m.Name), "string", m.Out, FALSE, Fn("method", i), NoFn))
        ELSE IF IsSetter(m)
        THEN Add(nodes, Node(m.Name, StrV(m.Name), "string", m.In, FALSE, NoFn, Fn("method", i)))
        ELSE nodes)

RECURSIVE MethodNodesFrom(_, _, _)
MethodNodesFrom(t, nodes, i) ==
    IF i >= Len(MethodSet(t)) THEN nodes
    ELSE MethodNodesFrom(t, MethodNode(t, nodes, i), i + 1)

\* func addMethodNodes(t reflect.Type, nodes *Nodes)
addMethodNodes(t, nodes) == MethodNodesFrom(t, nodes, 0)

RECURSIVE ConcreteType(_)
\* func ConcreteType(rt reflect.Type) reflect.Type
ConcreteType(rt) == IF Kind(rt) = "ptr" THEN ConcreteType(TypeInfo(rt).elem) ELSE rt

RECURSIVE ArrayNodes_Through(_, _, _)
\* ArrayNodes with the loop running through i = len
ArrayNodes_Through(c, nodes, i) ==
    IF i <= TypeInfo(c).len
    THEN ArrayNodes_Through(c, Add(nodes, Node(Itoa(i), IntV(i), "int", TypeInfo(c).elem, FALSE,
                                               Fn("index", 0), Fn("index", 0))), i + 1)
    ELSE nodes

RECURSIVE ArrayNodes(_, _, _)
\* case reflect.Array: for i := 0; i < len; i++ { nodes.Add(...) }
ArrayNodes(c, nodes, i) ==
    IF i < TypeInfo(c).len
    THEN ArrayNodes(c, Add(nodes, Node(Itoa(i), IntV(i), "int", TypeInfo(c).elem, FALSE,
                                       Fn("index", 0), Fn("index", 0))), i + 1)
    ELSE nodes

\* the cache with the Nodes of type t replaced
Cached(cache, t, nodes) == (t :> nodes) @@ cache

\* the node of field i of a record
FieldNode(field, i) ==
    Node(field.Name, StrV(field.Name), "string", field.Type, FALSE, Fn("field", i), Fn("field", i))

RECURSIVE GetTypeNodes(_, _)
RECURSIVE StructNodes(_, _, _)
\* case reflect.Struct: a node for each field, the nodes of an embedded field's
\* type in its place; the Nodes being built are the cache's entry for c
StructNodes(cache, c, i) ==
    IF i >= Len(TypeInfo(c).fields) THEN cache
    ELSE Let(TypeInfo(c).fields[i + 1], LAMBDA field :
         IF field.Anonymous
         THEN Let(GetTypeNodes(cache, field.Type), LAMBDA r :
                  StructNodes(Cached(r.cache, c, AddAll(r.cache[c], r.nodes.InOrder)), c, i + 1))
         ELSE StructNodes(Cached(cache, c, Add(cache[c], FieldNode(field, i))), c, i + 1))

\* node.Get = func(n, rv) { return get(n, rv.Call(...)[0]) }; node.Set = nil
CallNode(rn) == [rn EXCEPT !.Get = [f |-> "call", i |-> rn.Get.i, g |-> rn.Get.f], !.Set = NoFn]

\* the switch on c.Kind() of GetTypeNodes
KindNodes(cache, c) ==
    CASE Kind(c) = "map" ->
            Cached(cache, c, Add(cache[c], Node("", NilKey, TypeInfo(c).key, TypeInfo(c).elem, TRUE,
                                                Fn("map", 0), Fn("map", 0))))
      [] Kind(c) = "slice" ->
            Cached(cache, c, Add(cache[c], Node("", NilKey, "int", TypeInfo(c).elem, FALSE,
                                                Fn("index", 0), Fn("index", 0))))
      [] Kind(c) = "array" -> Cached(cache, c, ArrayNodes(c, cache[c], 0))
      [] Kind(c) = "func" ->
            IF IsGetter(TypeInfo(c))
            THEN Let(GetTypeNodes(cache, TypeInfo(c).Out), LAMBDA r :
                     Cached(r.cache, c,
                            AddAll(r.cache[c], [i \in 1..Len(r.nodes.InOrder) |->
                                                   CallNode(r.nodes.InOrder[i])])))
            ELSE cache
      [] Kind(c) = "struct" -> StructNodes(cache, c, 0)
      [] OTHER -> cache

\* the pointer variant sharing the Nodes of c instead of a clone of them
PointerNodes_Shared(cache, c) ==
    Let(PointerToType(c), LAMBDA p :
        IF Len(MethodSet(p)) # Len(MethodSet(c))
        THEN Cached(Cached(cache, p, addMethodNodes(p, cache[c])), c, addMethodNodes(p, cache[c]))
        ELSE cache)

\* the pointer variant: p := reflect.PointerTo(c); if p.NumMethod() != c.NumMethod()
PointerNodes(cache, c) ==
    Let(PointerToType(c), LAMBDA p :
        IF Len(MethodSet(p)) # Len(MethodSet(c))
        THEN Cached(cache, p, addMethodNodes(p, Clone(cache[c])))
        ELSE cache)

\* func GetTypeNodes(rt reflect.Type) *Nodes, on the cache typeNodes: [cache, nodes]
GetTypeNodes(cache, rt) ==
    IF rt \in DOMAIN cache THEN [cache |-> cache, nodes |-> cache[rt]]
    ELSE Let(ConcreteType(rt), LAMBDA c :
         IF c \in DOMAIN cache THEN [cache |-> cache, nodes |-> cache[c]]
         ELSE Let(KindNodes(Cached(cache, c, EmptyNodes), c), LAMBDA c1 :
              Let(PointerNodes(c1, c), LAMBDA c2 :
              Let(Cached(c2, c, addMethodNodes(c, c2[c])), LAMBDA c3 :
                  [cache |-> c3, nodes |-> IF rt \in DOMAIN c3 THEN c3[rt] ELSE c3[c]]))))

(***************************************************************************)
(* The node accessors of path.go.                                          *)
(***************************************************************************)
RECURSIVE Concrete(_, _)
\* func Concrete(v any) reflect.Value: follows pointers, to the zero Value at a nil one
Concrete(h, rv) ==
    IF rv.valid /\ Kind(rv.t) = "ptr" THEN Concrete(h, Elem(h, rv)) ELSE rv

\* var indexGet: Concrete(rv).Index(n.Key.(int))
indexGet(h, n, rv) ==
    IF n.Key.k # "int" THEN [h |-> h, rv |-> PanicRV]
    ELSE [h |-> h, rv |-> Index(h, Concrete(h, rv), n.Key.n)]

RECURSIVE Grow_While(_, _, _)
Grow_While(h, c, index) ==
    IF LenRv(h, c) < 0 THEN [h |-> h, err |-> "panic"]
    ELSE IF index >= LenRv(h, c) /\ c.cs
    THEN (IF Kind(c.t) = "slice" THEN Grow_While(AppendZero(h, c), c, index)
          ELSE [h |-> h, err |-> "panic"])
    ELSE [h |-> h, err |-> "nil"]

\* Grow as a do-while loop: one element is appended before the length is compared
Grow_DoWhile(h, c, index) ==
    IF LenRv(h, c) >= 0 /\ c.cs /\ Kind(c.t) = "slice"
    THEN Grow_While(AppendZero(h, c), c, index)
    ELSE Grow_While(h, c, index)

RECURSIVE Grow(_, _, _)
\* for index >= c.Len() && c.CanSet() { c.Set(reflect.Append(c, zero)) }: [h, err]
Grow(h, c, index) ==
    IF LenRv(h, c) < 0 THEN [h |-> h, err |-> "panic"]
    ELSE IF index >= LenRv(h, c) /\ c.cs
    THEN (IF Kind(c.t) = "slice" THEN Grow(AppendZero(h, c), c, index)
          ELSE [h |-> h, err |-> "panic"])
    ELSE [h |-> h, err |-> "nil"]

\* var indexSet
indexSet(h, n, rv, val) ==
    IF n.Key.k # "int" THEN [h |-> h, err |-> "panic"]
    ELSE Let(n.Key.n, LAMBDA index :
         Let(Concrete(h, rv), LAMBDA c :
             IF index < 0 THEN [h |-> h, err |-> "ErrSetNotSupported"]
             ELSE Let(Grow(h, c, index), LAMBDA g :
                  IF g.err # "nil" THEN g
                  ELSE Let(Index(g.h, c, index), LAMBDA el :
                       IF el.panic THEN [h |-> g.h, err |-> "panic"]
                       ELSE IF ~el.cs THEN [h |-> g.h, err |-> "ErrSetNotSupported"]
                       ELSE SetRv(g.h, el, val)))))

\* var mapGet: Concrete(rv).MapIndex(Reflect(n.Key))
mapGet(h, n, rv) == MapIndex(h, Concrete(h, rv), n.Key)

\* var mapSet: Concrete(rv).SetMapIndex(Reflect(n.Key), val)
mapSet(h, n, rv, val) == SetMapIndex(h, Concrete(h, rv), n.Key, val)

\* func getFieldGet(i int) NodeGet: Concrete(rv).Field(i)
getFieldGet(h, i, rv) == [h |-> h, rv |-> Field(h, Concrete(h, rv), i)]

\* func getFieldSet(i int) NodeSet
getFieldSet(h, i, rv, val) ==
    Let(Field(h, Concrete(h, rv), i), LAMBDA f :
        IF f.panic THEN [h |-> h, err |-> "panic"]
        ELSE IF ~f.cs THEN [h |-> h, err |-> "ErrSetNotSupported"]
        ELSE SetRv(h, f, val))

RECURSIVE NodeGet(_, _, _)
\* node.Get(node, rv): [h, rv]; calling a nil func panics
NodeGet(h, n, rv) ==
    CASE n.Get.f = "index"  -> indexGet(h, n, rv)
      [] n.Get.f = "call"   ->
            Let(FuncCall(h, rv), LAMBDA r :
                IF r.rv.panic THEN r
                ELSE NodeGet(r.h, [n EXCEPT !.Get = Fn(n.Get.g, n.Get.i)], r.rv))
      [] n.Get.f = "map"    -> mapGet(h, n, rv)
      [] n.Get.f = "field"  -> getFieldGet(h, n.Get.i, rv)
      [] n.Get.f = "method" -> MethodCallGet(h, rv, n.Get.i)
      [] OTHER -> [h |-> h, rv |-> PanicRV]

\* node.Set(node, rv, val): [h, err]; calling a nil func panics
NodeSet(h, n, rv, val) ==
    CASE n.Set.f = "index"  -> indexSet(h, n, rv, val)
      [] n.Set.f = "map"    -> mapSet(h, n, rv, val)
      [] n.Set.f = "field"  -> getFieldSet(h, n.Set.i, rv, val)
      [] n.Set.f = "method" -> MethodCallSet(h, rv, n.Set.i, val)
      [] OTHER -> [h |-> h, err |-> "panic"]

(***************************************************************************)
(* Value initialisation (part_003).                                        *)
(***************************************************************************)
RECURSIVE InitValue(_, _, _)
\* func InitValue(rv reflect.Value, rt reflect.Type) bool: [h, ok], ok one of
\* "true", "false", "panic"
InitValue(h, rv, rt) ==
    IF ~rv.valid THEN [h |-> h, ok |-> "false"]
    ELSE IF Nilable(rt) /\ ~Nilable(rv.t) THEN [h |-> h, ok |-> "panic"]
    ELSE IF Nilable(rt) /\ ~IsNil(h, rv) THEN [h |-> h, ok |-> "true"]
    ELSE IF Nilable(rt) /\ ~rv.cs THEN [h |-> h, ok |-> "false"]
    ELSE IF Nilable(rt) /\ rv.t # rt THEN [h |-> h, ok |-> "panic"]
    ELSE CASE Kind(rt) = "slice" ->
                Let(Alloc(h, [k |-> "array", e |-> <<>>]), LAMBDA b :
                    [h |-> Store(b.h, rv, [k |-> "slice", a |-> b.a, len |-> 0]), ok |-> "true"])
           [] Kind(rt) = "map" ->
                Let(Alloc(h, [k |-> "mapobj", m |-> <<>>]), LAMBDA b :
                    [h |-> Store(b.h, rv, [k |-> "map", a |-> b.a]), ok |-> "true"])
           [] Kind(rt) = "ptr" ->
                Let(NewElem(h, TypeInfo(rt).elem), LAMBDA ptr :
                Let(InitValue(ptr.h, ptr.rv, TypeInfo(rt).elem), LAMBDA r :
                    IF r.ok # "true" THEN r
                    ELSE [h |-> Store(r.h, rv, [k |-> "ptr", a |-> ptr.rv.a]), ok |-> "true"]))
           [] OTHER -> [h |-> h, ok |-> "true"]

\* func InitType(rt reflect.Type) reflect.Value: [h, rv]
InitType(h, rt) ==
    Let(NewElem(h, rt), LAMBDA n :
    Let(InitValue(n.h, n.rv, rt), LAMBDA r :
        IF r.ok = "panic" THEN [h |-> r.h, rv |-> PanicRV]
        ELSE IF r.ok = "false" THEN [h |-> r.h, rv |-> invalidValue]
        ELSE [h |-> r.h, rv |-> n.rv]))

(***************************************************************************)
(* Texts.  A Go string the decoder takes apart is a sequence of            *)
(* one-character strings; Chars gives the characters of the strings the    *)
(* programs use.                                                           *)
(***************************************************************************)
Chars(s) ==
    CASE s = ""      -> <<>>
      [] s = "John"  -> <<"J", "o", "h", "n">>
      [] s = "Doe"   -> <<"D", "o", "e">>
      [] s = "Ann"   -> <<"A", "n", "n">>
      [] s = "a"     -> <<"a">>
      [] s = "b"     -> <<"b">>
      [] s = "a b"   -> <<"a", " ", "b">>
      [] s = "X"     -> <<"X">>
      [] s = "Y"     -> <<"Y">>
      [] s = "First" -> <<"F", "i", "r", "s", "t">>
      [] s = "Last"  -> <<"L", "a", "s", "t">>
      [] s = "true"  -> <<"t", "r", "u", "e">>
      [] s = "false" -> <<"f", "a", "l", "s", "e">>
      [] s = "map["  -> <<"m", "a", "p", "[">>
      [] s = "["     -> <<"[">>
      [] s = "]"     -> <<"]">>
      [] s = "{"     -> <<"{">>
      [] s = "}"     -> <<"}">>

\* the strings a decoded text may stand for, in byte order
KnownStrings == <<"", "Ann", "Doe", "John", "a", "a b", "b">>

\* the string value with the characters cs
TextV(cs) ==
    IF \E i \in 1..Len(KnownStrings) : Chars(KnownStrings[i]) = cs
    THEN StrV(KnownStrings[CHOOSE i \in 1..Len(KnownStrings) : Chars(KnownStrings[i]) = cs])
    ELSE [k |-> "str", c |-> cs]

\* the characters of a string value
TextOf(v) == IF "s" \in DOMAIN v THEN Chars(v.s) ELSE v.c

\* strings.TrimPrefix / strings.TrimSuffix
TrimPrefix(s, p) ==
    IF Len(s) >= Len(p) /\ SubSeq(s, 1, Len(p)) = p THEN SubSeq(s, Len(p) + 1, Len(s)) ELSE s
TrimSuffix(s, p) ==
    IF Len(s) >= Len(p) /\ SubSeq(s, Len(s) - Len(p) + 1, Len(s)) = p
    THEN SubSeq(s, 1, Len(s) - Len(p))
    ELSE s

\* what the value separator `\s*[\s,|]+\s*` matches: a longest run of these
SepChars == {" ", "\t", "\n", "\f", "\r", ",", "|"}

\* the first index from i on whose character is (in = TRUE) or is not
\* (in = FALSE) a separator, Len(s) + 1 when there is none
RECURSIVE Scan(_, _, _)
Scan(s, i, in) ==
    IF i > Len(s) THEN i
    ELSE IF (s[i] \in SepChars) = in THEN i
    ELSE Scan(s, i + 1, in)

RECURSIVE Split(_, _)
\* regexp.Split(s, n) with the value separator: every piece for n < 0, at
\* most n pieces, the last one the unsplit rest, for n > 0, none for n = 0
Split(s, n) ==
    IF n = 0 THEN <<>>
    ELSE IF n = 1 \/ Scan(s, 1, TRUE) > Len(s) THEN <<s>>
    ELSE <<SubSeq(s, 1, Scan(s, 1, TRUE) - 1)>>
            \o Split(SubSeq(s, Scan(s, Scan(s, 1, TRUE), FALSE), Len(s)),
                     IF n > 0 THEN n - 1 ELSE n)

\* NewDecoder(): Slice, Array, Map, Struct, each a Multi with Start and End (the
\* separators are those above)
DecSlice == [Start |-> Chars("["), End |-> Chars("]")]
DecArray == [Start |-> Chars("["), End |-> Chars("]")]
DecMap == [Start |-> Chars("map["), End |-> Chars("]")]
DecStruct == [Start |-> Chars("{"), End |-> Chars("}")]

\* func (m Multi) Values(s string, max int) ([]string, error), Strict unset
Values(m, s, max) == Split(TrimSuffix(TrimPrefix(s, m.Start), m.End), max)

\* m.KeySeparator.Split(entry, 2) with the key separator `:`
KeySplit(entry) ==
    IF \E i \in 1..Len(entry) : entry[i] = ":"
    THEN Let(CHOOSE i \in 1..Len(entry) : entry[i] = ":" /\ \A j \in 1..i - 1 : entry[j] # ":",
             LAMBDA i : <<SubSeq(entry, 1, i - 1), SubSeq(entry, i + 1, Len(entry))>>)
    ELSE <<entry>>

\* func (m Multi) KeyValues(s string, max int) ([][2]string, error): [err, kvs]
KeyValues(m, s, max) ==
    Let(Values(m, s, max), LAMBDA entries :
        IF \E i \in 1..Len(entries) : Len(KeySplit(entries[i])) # 2
        THEN [err |-> TRUE, kvs |-> <<>>]
        ELSE [err |-> FALSE, kvs |-> [i \in 1..Len(entries) |-> KeySplit(entries[i])]])

DigitVal(c) ==
    CASE c = "0" -> 0 [] c = "1" -> 1 [] c = "2" -> 2 [] c = "3" -> 3 [] c = "4" -> 4
      [] c = "5" -> 5 [] c = "6" -> 6 [] c = "7" -> 7 [] c = "8" -> 8 [] c = "9" -> 9
      [] OTHER -> -1

RECURSIVE Digits(_)
\* the number a run of decimal digits stands for
Digits(cs) == IF cs = <<>> THEN 0 ELSE 10 * Digits(SubSeq(cs, 1, Len(cs) - 1)) + DigitVal(cs[Len(cs)])

\* strconv.ParseInt(s, 10, 64): an optional sign and one decimal digit or more: [err, n]
ParseInt(cs) ==
    Let(IF cs # <<>> /\ cs[1] \in {"+", "-"} THEN Tail(cs) ELSE cs, LAMBDA ds :
        IF ds = <<>> \/ \E i \in 1..Len(ds) : DigitVal(ds[i]) < 0 THEN [err |-> TRUE, n |-> 0]
        ELSE [err |-> FALSE, n |-> IF cs[1] = "-" THEN -Digits(ds) ELSE Digits(ds)])

RECURSIVE ItoaChars(_)
ItoaChars(n) == IF n < 10 THEN <<Digit(n)>> ELSE ItoaChars(n \div 10) \o <<Digit(n % 10)>>

\* strings.ToLower of one character
Lower(c) ==
    CASE c = "A" -> "a" [] c = "B" -> "b" [] c = "C" -> "c" [] c = "D" -> "d" [] c = "E" -> "e"
      [] c = "F" -> "f" [] c = "G" -> "g" [] c = "H" -> "h" [] c = "I" -> "i" [] c = "J" -> "j"
      [] c = "K" -> "k" [] c = "L" -> "l" [] c = "M" -> "m" [] c = "N" -> "n" [] c = "O" -> "o"
      [] c = "P" -> "p" [] c = "Q" -> "q" [] c = "R" -> "r" [] c = "S" -> "s" [] c = "T" -> "t"
      [] c = "U" -> "u" [] c = "V" -> "v" [] c = "W" -> "w" [] c = "X" -> "x" [] c = "Y" -> "y"
      [] c = "Z" -> "z" [] OTHER -> c

ToLower(cs) == [i \in 1..Len(cs) |-> Lower(cs[i])]

\* NewDecoder(): Trues, Falses
Trues ==
    {<<"t", "r", "u", "e">>, <<"t">>, <<"y", "e", "s">>, <<"y", "a">>, <<"y">>, <<"s", "i">>,
     <<"1">>, <<"x">>}
Falses == {<<"f", "a", "l", "s", "e">>, <<"f">>, <<"n", "o">>, <<"n">>, <<"0">>, <<>>}

(***************************************************************************)
(* The decoder (decoder.go), on values in deep form.                       *)
(***************************************************************************)
\* concrete.FieldByName(fieldName): the index of the field from 1, 0 when unknown
FieldByName(t, fieldName) ==
    IF \E i \in 1..Len(TypeInfo(t).fields) : Chars(TypeInfo(t).fields[i].Name) = fieldName
    THEN CHOOSE i \in 1..Len(TypeInfo(t).fields) : Chars(TypeInfo(t).fields[i].Name) = fieldName
    ELSE 0

RECURSIVE Parse(_, _)
RECURSIVE ParseElems(_, _, _)
RECURSIVE ParseEntries(_, _, _)
RECURSIVE ParseFields(_, _, _)

\* for _, elementString := range elements { element, err := d.Parse(...) }:
\* the elements parsed so far in acc: [err, vals]
ParseElems(elements, t, acc) ==
    IF elements = <<>> THEN [err |-> FALSE, vals |-> acc]
    ELSE Let(Parse(Head(elements), t), LAMBDA r :
         IF r.err THEN [err |-> TRUE, vals |-> acc]
         ELSE ParseElems(Tail(elements), t, Append(acc, r.val)))

\* for _, keyValue := range keyValues { ...; concrete.SetMapIndex(key, value) }: [err, m]
ParseEntries(kvs, t, m) ==
    IF kvs = <<>> THEN [err |-> FALSE, m |-> m]
    ELSE Let(Parse(Head(kvs)[1], TypeInfo(t).key), LAMBDA key :
         Let(Parse(Head(kvs)[2], TypeInfo(t).elem), LAMBDA value :
             IF key.err \/ value.err THEN [err |-> TRUE, m |-> m]
             ELSE ParseEntries(Tail(kvs), t,
                               [x \in DOMAIN m \cup {RawKey(key.val)} |->
                                   IF x = RawKey(key.val) THEN value.val ELSE m[x]])))

\* for _, keyValue := range keyValues { field := concrete.FieldByName(...); ...;
\* field.Set(value) }: [err, f]
ParseFields(kvs, t, f) ==
    IF kvs = <<>> THEN [err |-> FALSE, f |-> f]
    ELSE Let(FieldByName(t, Head(kvs)[1]), LAMBDA i :
         IF i = 0 THEN [err |-> TRUE, f |-> f]
         ELSE Let(Parse(Head(kvs)[2], TypeInfo(t).fields[i].Type), LAMBDA value :
              IF value.err THEN [err |-> TRUE, f |-> f]
              ELSE ParseFields(Tail(kvs), t, [f EXCEPT ![i] = value.val])))

\* func (d Decoder) Parse(s string, rt reflect.Type) (reflect.Value, error), with
\* no custom parser and no TextUnmarshaler: [err, val]
Parse(s, rt) ==
    CASE Kind(rt) = "ptr" ->
            Let(Parse(s, TypeInfo(rt).elem), LAMBDA r :
                [err |-> r.err, val |-> [k |-> "ptr", nil |-> FALSE, v |-> r.val]])
      [] Kind(rt) = "bool" ->
            IF ToLower(s) \in Trues THEN [err |-> FALSE, val |-> BoolV(TRUE)]
            ELSE IF ToLower(s) \in Falses THEN [err |-> FALSE, val |-> BoolV(FALSE)]
            ELSE [err |-> TRUE, val |-> BoolV(FALSE)]
      [] Kind(rt) = "int" ->
            Let(ParseInt(s), LAMBDA r : [err |-> r.err, val |-> IntV(r.n)])
      [] Kind(rt) = "string" -> [err |-> FALSE, val |-> TextV(s)]
      [] Kind(rt) = "array" ->
            Let(ParseElems(Values(DecArray, s, TypeInfo(rt).len), TypeInfo(rt).elem, <<>>),
                LAMBDA r :
                [err |-> r.err,
                 val |-> [k |-> "array",
                          e |-> [i \in 1..TypeInfo(rt).len |->
                                    IF i <= Len(r.vals) THEN r.vals[i]
                                    ELSE Deep(<<>>, Zero(TypeInfo(rt).elem))]]])
      [] Kind(rt) = "slice" ->
            Let(ParseElems(Values(DecSlice, s, -1), TypeInfo(rt).elem, <<>>), LAMBDA r :
                [err |-> r.err, val |-> [k |-> "slice", nil |-> FALSE, e |-> r.vals]])
      [] Kind(rt) = "map" ->
            Let(KeyValues(DecMap, s, -1), LAMBDA kv :
                IF kv.err THEN [err |-> TRUE, val |-> [k |-> "map", nil |-> FALSE, m |-> <<>>]]
                ELSE Let(ParseEntries(kv.kvs, rt, <<>>), LAMBDA r :
                         [err |-> r.err, val |-> [k |-> "map", nil |-> FALSE, m |-> r.m]]))
      [] Kind(rt) = "struct" ->
            Let(KeyValues(DecStruct, s, -1), LAMBDA kv :
                IF kv.err THEN [err |-> TRUE, val |-> Deep(<<>>, Zero(rt))]
                ELSE Let(ParseFields(kv.kvs, rt, Deep(<<>>, Zero(rt)).f), LAMBDA r :
                         [err |-> r.err, val |-> [k |-> "struct", f |-> r.f]]))
      [] OTHER -> [err |-> TRUE, val |-> [k |-> "none"]]

\* func (d Decoder) DecodeType(t reflect.Type, s string) (any, error): [err, val]
DecodeType(t, s) == Parse(s, t)

(***************************************************************************)
(* Path and Ref (path.go).                                                 *)
(***************************************************************************)
\* func NewPath(root reflect.Type) Path
NewPath(root) == [root |-> root, nodes |-> <<>>]

\* func (p Path) Type() reflect.Type
PathType(p) == IF p.nodes = <<>> THEN p.root ELSE p.nodes[Len(p.nodes)].Type

\* func (p Path) Next(key any) *Path, on the cache: [cache, ok, path], ok = FALSE for nil
PathNext(cache, p, key) ==
    Let(GetTypeNodes(cache, PathType(p)), LAMBDA nextNodes :
    Let(ForKey(nextNodes.nodes, key), LAMBDA nextNode :
        IF ~nextNode.ok THEN [cache |-> nextNodes.cache, ok |-> FALSE, path |-> p]
        ELSE [cache |-> nextNodes.cache, ok |-> TRUE,
              path |-> [root |-> p.root, nodes |-> Append(p.nodes, nextNode.node)]]))

\* func (p Path) KeyStrings() []string
KeyStrings(p) == [i \in 1..Len(p.nodes) |-> p.nodes[i].KeyString]

RECURSIVE GetFrom_Swapped(_, _, _, _)
\* GetFrom with the two error values exchanged
GetFrom_Swapped(h, nodes, i, rv) ==
    IF i > Len(nodes) THEN [h |-> h, rv |-> rv, err |-> "nil", reads |-> i - 1]
    ELSE IF nodes[i].Get.f = "nil"
    THEN [h |-> h, rv |-> invalidValue, err |-> "ErrGetInvalid", reads |-> i - 1]
    ELSE Let(NodeGet(h, nodes[i], rv), LAMBDA r :
         IF r.rv.panic THEN [h |-> r.h, rv |-> r.rv, err |-> "panic", reads |-> i]
         ELSE IF ~r.rv.valid
         THEN [h |-> r.h, rv |-> r.rv, err |-> "ErrGetNotSupported", reads |-> i]
         ELSE GetFrom_Swapped(r.h, nodes, i + 1, r.rv))

RECURSIVE GetFrom(_, _, _, _)
\* the loop of Path.Get from node i (from 1) on: [h, rv, err, reads], reads the
\* number of node reads made
GetFrom(h, nodes, i, rv) ==
    IF i > Len(nodes) THEN [h |-> h, rv |-> rv, err |-> "nil", reads |-> i - 1]
    ELSE IF nodes[i].Get.f = "nil"
    THEN [h |-> h, rv |-> invalidValue, err |-> "ErrGetNotSupported", reads |-> i - 1]
    ELSE Let(NodeGet(h, nodes[i], rv), LAMBDA r :
         IF r.rv.panic THEN [h |-> r.h, rv |-> r.rv, err |-> "panic", reads |-> i]
         ELSE IF ~r.rv.valid THEN [h |-> r.h, rv |-> r.rv, err |-> "ErrGetInvalid", reads |-> i]
         ELSE GetFrom(r.h, nodes, i + 1, r.rv))

\* func (p Path) Get(root any) (reflect.Value, error)
PathGet(h, p, rv) ==
    IF p.nodes = <<>> THEN [h |-> h, rv |-> rv, err |-> "nil", reads |-> 0]
    ELSE GetFrom(h, p.nodes, 1, rv)

\* PreCheck letting every path through
PreCheck_None(nodes, i) == "nil"

RECURSIVE PreCheck(_, _)
\* the first loop of Path.Set: every node writable, every node but the last readable
PreCheck(nodes, i) ==
    IF i > Len(nodes) THEN "nil"
    ELSE IF nodes[i].Set.f = "nil" THEN "ErrSetNotSupported"
    ELSE IF nodes[i].Get.f = "nil" /\ i < Len(nodes) THEN "ErrGetNotSupported"
    ELSE PreCheck(nodes, i + 1)

\* Holder handing out a fresh zero value where the code copies the one it read
Holder_Fresh(h, next) ==
    IF next.cs THEN [h |-> h, rv |-> next]
    ELSE Let(Alloc(h, Zero(next.t)), LAMBDA c : [h |-> c.h, rv |-> RV(c.a, <<>>, TRUE, next.t)])

\* if !next.CanSet() { ptr := reflect.New(next.Type()); ptr.Elem().Set(next); next = ptr.Elem() }
Holder(h, next) ==
    IF next.cs THEN [h |-> h, rv |-> next]
    ELSE Let(Alloc(h, Load(h, next)), LAMBDA c : [h |-> c.h, rv |-> RV(c.a, <<>>, TRUE, next.t)])

RECURSIVE Forward(_, _, _, _, _)
\* the second loop of Path.Set from node i (from 1) on; values[i] is the container
\* node i applies to: [h, err, values, setBackTo] (setBackTo 0: unset)
Forward(h, nodes, i, values, setBackTo) ==
    IF i >= Len(nodes) THEN [h |-> h, err |-> "nil", values |-> values, setBackTo |-> setBackTo]
    ELSE Let(nodes[i], LAMBDA node :
         Let(IF node.CopyOnly /\ setBackTo = 0 THEN i ELSE setBackTo, LAMBDA sb1 :
         Let(NodeGet(h, node, values[i]), LAMBDA got :
         Let(IF got.rv.valid \/ got.rv.panic THEN got ELSE InitType(got.h, node.Type), LAMBDA made :
         Let(IF ~got.rv.valid /\ sb1 = 0 THEN i ELSE sb1, LAMBDA sb2 :
             IF made.rv.panic
             THEN [h |-> made.h, err |-> "panic", values |-> values, setBackTo |-> sb2]
             ELSE IF ~made.rv.valid
             THEN [h |-> made.h, err |-> "ErrGetInvalid", values |-> values, setBackTo |-> sb2]
             ELSE Let(Holder(made.h, made.rv), LAMBDA held :
                  Let(InitValue(held.h, held.rv, node.Type), LAMBDA init :
                      IF init.ok = "panic"
                      THEN [h |-> init.h, err |-> "panic", values |-> values, setBackTo |-> sb2]
                      ELSE IF init.ok = "false"
                      THEN [h |-> init.h, err |-> "ErrGetInvalid", values |-> values,
                            setBackTo |-> sb2]
                      ELSE Forward(init.h, nodes, i + 1, Append(values, held.rv), sb2))))))))

\* SetBack with the write-back pass left out
SetBack_Skipped(h, nodes, values, k, setBackTo) == [h |-> h, err |-> "nil"]

RECURSIVE SetBack(_, _, _, _, _)
\* for k := last; k > setBackTo; k-- { prev.Set(prev, values[k-1], values[k]) }: [h, err]
SetBack(h, nodes, values, k, setBackTo) ==
    IF k <= setBackTo THEN [h |-> h, err |-> "nil"]
    ELSE Let(NodeSet(h, nodes[k - 1], values[k - 1], values[k]), LAMBDA r :
         IF r.err # "nil" THEN r
         ELSE SetBack(r.h, nodes, values, k - 1, setBackTo))

\* func (p Path) Set(root any, val any) error: [h, err]
PathSet(h, p, rv, val) ==
    IF p.nodes = <<>>
    THEN (IF rv.cs
          THEN Let(InitValue(h, rv, rv.t), LAMBDA i :
               IF i.ok = "panic" THEN [h |-> i.h, err |-> "panic"] ELSE SetRv(i.h, rv, val))
          ELSE [h |-> h, err |-> "ErrSetNotSupported"])
    ELSE IF PreCheck(p.nodes, 1) # "nil" THEN [h |-> h, err |-> PreCheck(p.nodes, 1)]
    ELSE Let(Len(p.nodes), LAMBDA last :
         Let(Forward(h, p.nodes, 1, <<rv>>, 0), LAMBDA fw :
             IF fw.err # "nil" THEN [h |-> fw.h, err |-> fw.err]
             ELSE Let(NodeSet(fw.h, p.nodes[last], fw.values[last], val), LAMBDA w :
                  IF w.err # "nil" THEN w
                  ELSE IF fw.setBackTo = 0 THEN w
                  ELSE SetBack(w.h, p.nodes, fw.values, last, fw.setBackTo))))

\* func PointerMaybe(v any) reflect.Value
PointerMaybe(h, rv) ==
    IF rv.valid /\ Kind(rv.t) = "ptr" /\ Elem(h, rv).valid /\ Kind(Elem(h, rv).t) = "ptr"
    THEN Elem(h, rv)
    ELSE rv

RECURSIVE KeyOrder(_)
\* c.MapKeys(): the keys in an order reflect leaves unspecified
KeyOrder(S) ==
    IF S = {} THEN <<>>
    ELSE Let(CHOOSE x \in S : TRUE, LAMBDA x : <<x>> \o KeyOrder(S \ {x}))

RECURSIVE MapValueNodes(_, _, _)
\* for _, mapKey := range mapKeys { nodes.Add(Node{...}) }
MapValueNodes(t, nodes, keys) ==
    IF keys = <<>> THEN nodes
    ELSE Let(IF TypeInfo(t).key = "string" THEN StrV(Head(keys)) ELSE IntV(Head(keys)),
             LAMBDA key :
             MapValueNodes(t,
                           Add(nodes, Node(ToStringV(key), key, TypeInfo(t).key, TypeInfo(t).elem,
                                           TRUE, Fn("map", 0), Fn("map", 0))),
                           Tail(keys)))

RECURSIVE SliceValueNodes(_, _, _, _)
\* for i := 0; i < n; i++ { nodes.Add(Node{...}) }
SliceValueNodes(t, nodes, i, n) ==
    IF i < n
    THEN SliceValueNodes(t, Add(nodes, Node(Itoa(i), IntV(i), "int", TypeInfo(t).elem, FALSE,
                                            Fn("index", 0), Fn("index", 0))), i + 1, n)
    ELSE nodes

\* func GetValueNodes(v any) *Nodes, on the cache: [cache, st, nodes], st "ok" or
\* "panic" (p.Type() of the zero Value)
GetValueNodes(h, cache, rv) ==
    Let(Concrete(h, rv), LAMBDA c :
    Let(PointerMaybe(h, rv), LAMBDA p :
        IF c.valid /\ Kind(c.t) = "map"
        THEN [cache |-> cache, st |-> "ok",
              nodes |-> addMethodNodes(c.t,
                           MapValueNodes(c.t, EmptyNodes,
                                         IF Load(h, c).a = 0 THEN <<>>
                                         ELSE KeyOrder(DOMAIN h[Load(h, c).a].m)))]
        ELSE IF c.valid /\ Kind(c.t) = "slice"
        THEN [cache |-> cache, st |-> "ok",
              nodes |-> addMethodNodes(c.t, SliceValueNodes(c.t, EmptyNodes, 0, LenRv(h, c)))]
        ELSE IF ~p.valid THEN [cache |-> cache, st |-> "panic", nodes |-> EmptyNodes]
        ELSE Let(GetTypeNodes(cache, p.t), LAMBDA r :
                 [cache |-> r.cache, st |-> "ok", nodes |-> r.nodes])))

\* func (r Ref) NextNodes() *Nodes: [h, cache, st, nodes], st "ok", "nil" for a
\* nil result, or "panic"
RefNextNodes(h, cache, path, rv) ==
    Let(PathGet(h, path, rv), LAMBDA g :
        IF g.err = "panic" THEN [h |-> g.h, cache |-> cache, st |-> "panic", nodes |-> EmptyNodes]
        ELSE IF g.err = "nil" THEN [h |-> g.h, cache |-> cache, st |-> "nil", nodes |-> EmptyNodes]
        ELSE Let(GetValueNodes(g.h, cache, g.rv), LAMBDA r :
                 [h |-> g.h, cache |-> r.cache, st |-> r.st, nodes |-> r.nodes]))

\* func (r Ref) Next(key any) *Ref: [cache, st, path], st "ok" or "nil"
RefNext(cache, path, key) ==
    Let(PathNext(cache, path, key), LAMBDA n :
        [cache |-> n.cache, st |-> IF n.ok THEN "ok" ELSE "nil", path |-> n.path])

RECURSIVE RefNexts(_, _, _)
\* func (r Ref) Nexts(keys []any) *Ref: [cache, st, path]; with two keys or more
\* the method is called on what Next returned, which panics when that is nil
RefNexts(cache, path, keys) ==
    IF Len(keys) = 0 THEN [cache |-> cache, st |-> "ok", path |-> path]
    ELSE IF Len(keys) = 1 THEN RefNext(cache, path, keys[1])
    ELSE Let(RefNext(cache, path, keys[1]), LAMBDA n :
         IF n.st = "nil" THEN [cache |-> n.cache, st |-> "panic", path |-> path]
         ELSE RefNexts(n.cache, n.path, Tail(keys)))

\* SetString with the text decoded against the type of the path's root
PathSetString_RootType(h, p, rv, s) ==
    Let(DecodeType(p.root, s), LAMBDA parsed :
        IF parsed.err THEN [h |-> h, err |-> "decode"]
        ELSE Let(Alloc(Mat(h, parsed.val).h, Mat(h, parsed.val).v), LAMBDA c :
                 PathSet(c.h, p, rv, RV(c.a, <<>>, FALSE, p.root))))

\* func (p Path) SetString(root any, s string) error: [h, err], err "decode"
\* for the decoder's error
PathSetString(h, p, rv, s) ==
    Let(DecodeType(PathType(p), s), LAMBDA parsed :
        IF parsed.err THEN [h |-> h, err |-> "decode"]
        ELSE Let(Alloc(Mat(h, parsed.val).h, Mat(h, parsed.val).v), LAMBDA c :
                 PathSet(c.h, p, rv, RV(c.a, <<>>, FALSE, PathType(p)))))

(***************************************************************************)
(* The program: a root value handed to NewRef, a Ref walked with Next and  *)
(* Nexts, read with Get and written with Set.                              *)
(***************************************************************************)
VARIABLES rootT, root, typeNodes, ref, res, conc, paths

vars == <<rootT, root, typeNodes, ref, res, conc, paths>>

DPtr(d) == [k |-> "ptr", nil |-> FALSE, v |-> d]
DMap(m) == [k |-> "map", nil |-> FALSE, m |-> m]
DSlice(e) == [k |-> "slice", nil |-> FALSE, e |-> e]
DStruct(f) == [k |-> "struct", f |-> f]
DPoint(x, y) == DStruct(<<IntV(x), IntV(y)>>)
DFunc(out) == [k |-> "func", nil |-> FALSE, out |-> out]
DeepZero(t) == Deep(<<>>, Zero(t))
NoVal == [k |-> "none"]

\* the roots of the test programs: [t, d], the type handed to NewRef and the value
Roots ==
    << [t |-> "*persons", d |-> DPtr(DeepZero("persons"))],
       [t |-> "*point", d |-> DPtr(DPoint(5, 0))],
       [t |-> "*map[string]int", d |-> DPtr(DMap("John" :> IntV(5)))],
       [t |-> "*map[string]int", d |-> DPtr(DeepZero("map[string]int"))],
       [t |-> "*[]int", d |-> DPtr(DSlice(<<IntV(5)>>))],
       [t |-> "*[]int", d |-> DPtr(DeepZero("[]int"))],
       [t |-> "*[2]int", d |-> DPtr(DeepZero("[2]int"))],
       [t |-> "*map[string]*point", d |-> DPtr(DMap("John" :> DPtr(DPoint(5, 0))))],
       [t |-> "*map[string][]int", d |-> DPtr(DMap(<<>>))],
       [t |-> "*outer", d |-> DPtr(DeepZero("outer"))],
       [t |-> "outer", d |-> DeepZero("outer")],
       [t |-> "*[]point", d |-> DPtr(DSlice(<<DPoint(5, 0)>>))],
       [t |-> "*[]point", d |-> DPtr(DSlice(<<>>))],
       [t |-> "[]int", d |-> DSlice(<<IntV(5)>>)],
       [t |-> "point", d |-> DPoint(5, 0)],
       [t |-> "*shape", d |-> DPtr(DeepZero("shape"))],
       [t |-> "*widget", d |-> DPtr(DStruct(<<DFunc(DPoint(5, 0))>>))],
       [t |-> "*scores", d |-> DPtr(DMap("John" :> IntV(5)))],
       [t |-> "*crate", d |-> DPtr(DeepZero("crate"))] >>

\* reflect.ValueOf(v) of a value of type t: a copy in a cell of its own, not
\* addressable: [h, rv]
ValueOf(h, d, t) ==
    Let(Mat(h, d), LAMBDA m :
    Let(Alloc(m.h, m.v), LAMBDA c : [h |-> c.h, rv |-> RV(c.a, <<>>, FALSE, t)]))

\* the names a struct type declares: its fields and its methods of both receiver kinds
NamesOf(c) ==
    {TypeInfo(c).fields[i].Name : i \in 1..Len(TypeInfo(c).fields)}
      \cup {Declared(c)[i].Name : i \in 1..Len(Declared(c))}

\* the map keys the programs use
MapKeys(c) ==
    CASE c = "map[string][]int" -> {"John"}
      [] c = "scores" -> {"John", "", "Len"}
      [] OTHER -> {"John", "Ann"}

\* the sequence indices the programs use
Indices(c) == IF c = "[]int" THEN -1 .. MaxIdx ELSE 0 .. 1

\* the keys offered to Next by the programs that read and write: keys of the
\* node's key type, and for a struct one name it does not declare
Inputs(t) ==
    Let(ConcreteType(t), LAMBDA c :
        CASE Kind(c) = "map"    -> {StrV(s) : s \in MapKeys(c)}
          [] Kind(c) = "slice"  -> {IntV(i) : i \in Indices(c)}
          [] Kind(c) = "array"  -> {IntV(i) : i \in -1 .. TypeInfo(c).len + 1}
                                     \cup {StrV(s) : s \in {"0", "1", "2", "01", "-1", "+1"}}
          [] Kind(c) = "struct" -> {StrV(s) : s \in NamesOf(c) \cup {"Nope"}}
          [] Kind(c) = "func"   -> {StrV(s) : s \in NamesOf(TypeInfo(c).Out)}
          [] OTHER -> {})

\* the texts offered to SetString at a path of type t
TextsOf(t) ==
    CASE t = "int" -> {<<"5">>, <<"x">>}
      [] t = "string" -> {Chars("Doe")}
      [] t = "point" -> {<<"{", "X", ":", "5", " ", "Y", ":", "5", "}">>, <<"{", "Z", ":", "5", "}">>}
      [] t = "[]int" -> {<<"[", "5", "]">>}
      [] OTHER -> {<<>>}

\* the values offered to Set at a path of type t
ValuesOf(t) ==
    CASE t = "int" -> {IntV(0), IntV(5)}
      [] t = "string" -> {StrV("John"), StrV("Doe")}
      [] t = "point" -> {DeepZero(t), DPoint(5, 5)}
      [] OTHER -> {DeepZero(t)}

RECURSIVE NextsInputs(_, _, _)
\* the key lists of at most n keys handed to Nexts at path p: each key is one
\* offered to Next where it stands, and a key that does not resolve is the
\* last or is followed by itself
NextsInputs(cache, p, n) ==
    IF n = 0 THEN {<<>>}
    ELSE {<<>>} \cup UNION {
            Let(PathNext(cache, p, key), LAMBDA nx :
                {<<key>> \o rest :
                    rest \in IF nx.ok THEN NextsInputs(nx.cache, nx.path, n - 1)
                             ELSE IF n > 1 THEN {<<>>, <<key>>} ELSE {<<>>}})
            : key \in Inputs(PathType(p)) }

Res(op, err, val, arg, before, path0, keys, reads) ==
    [op |-> op, err |-> err, val |-> val, arg |-> arg, before |-> before,
     path0 |-> path0, keys |-> keys, reads |-> reads]

\* no goroutine besides the one of the program
NoConc == [objs |-> <<>>, th |-> <<>>]

\* no Ref variable besides ref
NoPaths == [arrs |-> <<>>, v |-> <<>>]

Init ==
    /\ \E i \in 1..Len(Roots) : rootT = Roots[i].t /\ root = Roots[i].d
    /\ conc = NoConc
    /\ typeNodes = <<>>
    /\ paths = NoPaths
    /\ ref = NewPath(rootT)
    /\ res = Res("NewRef", "nil", NoVal, NoVal, NoVal, <<>>, <<>>, 0)

\* a panic ends the process
Alive == res.err # "panic"

\* ref = NewRef(root)
NewRefAct ==
    /\ Alive
    /\ ref' = NewPath(rootT)
    /\ res' = Res("NewRef", "nil", NoVal, NoVal, NoVal, <<>>, <<>>, 0)
    /\ UNCHANGED <<conc, rootT, root, typeNodes, paths>>

\* next := ref.Next(key); if next != nil { ref = *next }
NextStep(key) ==
    \E n \in {RefNext(typeNodes, ref, key)} :
    /\ typeNodes' = n.cache
    /\ ref' = IF n.st = "ok" THEN n.path ELSE ref
    /\ res' = Res("Next", IF n.st = "ok" THEN "nil" ELSE "NoSuchPath", NoVal, NoVal, NoVal,
                  ref.nodes, <<key>>, 0)
    /\ UNCHANGED <<conc, rootT, root, paths>>

NextAct == Alive /\ \E key \in Inputs(PathType(ref)) : NextStep(key)

\* next := ref.Nexts(keys); if next != nil { ref = *next }
NextsAct ==
    /\ Alive
    /\ \E keys \in NextsInputs(typeNodes, ref, MaxNexts) :
       \E n \in {RefNexts(typeNodes, ref, keys)} :
          /\ typeNodes' = n.cache
          /\ ref' = IF n.st = "ok" THEN n.path ELSE ref
          /\ res' = Res("Nexts",
                        CASE n.st = "ok" -> "nil" [] n.st = "nil" -> "NoSuchPath" [] OTHER -> "panic",
                        NoVal, NoVal, NoVal, ref.nodes, keys, 0)
    /\ UNCHANGED <<conc, rootT, root, paths>>

\* ref.Get()
GetAct ==
    /\ Alive
    /\ \E b \in {ValueOf(<<>>, root, rootT)} :
       \E r \in {PathGet(b.h, ref, b.rv)} :
          /\ res' = Res("Get", r.err,
                        IF r.err = "nil" THEN Deep(r.h, Load(r.h, r.rv)) ELSE NoVal,
                        NoVal, NoVal, ref.nodes, <<>>, r.reads)
          /\ root' = Deep(r.h, Load(r.h, b.rv))
    /\ UNCHANGED <<conc, rootT, typeNodes, ref, paths>>

\* ref.Set(v)
SetAct ==
    /\ Alive
    /\ \E v \in ValuesOf(PathType(ref)) :
         \E b \in {ValueOf(<<>>, root, rootT)} :
         \E x \in {ValueOf(b.h, v, PathType(ref))} :
         \E r \in {PathSet(x.h, ref, b.rv, x.rv)} :
            /\ res' = Res("Set", r.err, NoVal, v, root, ref.nodes, <<>>, 0)
            /\ root' = Deep(r.h, Load(r.h, b.rv))
    /\ UNCHANGED <<conc, rootT, typeNodes, ref, paths>>

\* ref.SetString(s)
SetStringAct ==
    /\ Alive
    /\ \E s \in TextsOf(PathType(ref)) :
         \E b \in {ValueOf(<<>>, root, rootT)} :
         \E r \in {PathSetString(b.h, ref, b.rv, s)} :
            /\ res' = Res("SetString", r.err, NoVal, [k |-> "text", c |-> s], root, ref.nodes,
                          <<>>, 0)
            /\ root' = Deep(r.h, Load(r.h, b.rv))
    /\ UNCHANGED <<conc, rootT, typeNodes, ref, paths>>

\* nodes := ref.NextNodes()
NextNodesAct ==
    /\ Alive
    /\ \E b \in {ValueOf(<<>>, root, rootT)} :
       \E r \in {RefNextNodes(b.h, typeNodes, ref, b.rv)} :
          /\ res' = Res("NextNodes", IF r.st = "panic" THEN "panic" ELSE "nil",
                        [k |-> IF r.st = "ok" THEN "nodes" ELSE "nilnodes"], NoVal, root,
                        ref.nodes, NodesKeyStrings(r.nodes), 0)
          /\ typeNodes' = r.cache
          /\ root' = Deep(r.h, Load(r.h, b.rv))
    /\ UNCHANGED <<conc, rootT, ref, paths>>

Next == NewRefAct \/ NextAct \/ NextsAct \/ GetAct \/ SetAct \/ SetStringAct \/ NextNodesAct

Spec == Init /\ [][Next]_vars

(***************************************************************************)
(* The program that inspects types: GetTypeNodes called for one type after *)
(* another on the cache they share.                                        *)
(***************************************************************************)
\* the types inspected
NodeTypes ==
    {"point", "*point", "name", "*shape", "base", "derived", "deep", "*deep",
     "ringA", "ringB", "*ringB", "[]int", "map[string]int"}

InitNodes ==
    /\ conc = NoConc
    /\ rootT = "int"
    /\ root = IntV(0)
    /\ typeNodes = <<>>
    /\ paths = NoPaths
    /\ ref = NewPath(rootT)
    /\ res = Res("NewRef", "nil", NoVal, NoVal, NoVal, <<>>, <<>>, 0)

\* nodes := GetTypeNodes(t); keys := nodes.KeyStrings()
NodesForAct ==
    \E t \in NodeTypes :
    \E r \in {GetTypeNodes(typeNodes, t)} :
       /\ typeNodes' = r.cache
       /\ res' = Res("NodesFor", "nil", NoVal, [k |-> "type", t |-> t], NoVal, <<>>,
                     NodesKeyStrings(r.nodes), 0)
       /\ UNCHANGED <<conc, rootT, root, ref, paths>>

SpecNodes == InitNodes /\ [][NodesForAct]_vars

(***************************************************************************)
(* The program with two goroutines that call GetTypeNodes.  typeNodes maps *)
(* a type to the address of its Nodes in conc.objs (a *Nodes); conc.th     *)
(* holds each goroutine's position in GetTypeNodes and its locals.  A step *)
(* is one statement, or one pass of a loop, of part_000:180-273.           *)
(***************************************************************************)
Threads == {1, 2}

\* the record types the goroutines inspect
ConcTypes == {"point", "*point"}

Idle == [pc |-> "idle", rt |-> "", nodes |-> 0, pnodes |-> 0, i |-> 0]

InitConc ==
    /\ rootT = "int"
    /\ root = IntV(0)
    /\ typeNodes = <<>>
    /\ paths = NoPaths
    /\ ref = NewPath(rootT)
    /\ res = Res("NewRef", "nil", NoVal, NoVal, NoVal, <<>>, <<>>, 0)
    /\ conc = [objs |-> <<>>, th |-> [t \in Threads |-> Idle]]

\* the goroutine's next statement reads the map typeNodes
ReadsMap(t) == conc.th[t].pc \in {"check", "return"}

\* the goroutine's next statement writes the map typeNodes
WritesMap(t) ==
    \/ conc.th[t].pc = "alloc"
    \/ /\ conc.th[t].pc = "pointer"
       /\ Len(MethodSet(PointerToType(ConcreteType(conc.th[t].rt))))
             # Len(MethodSet(ConcreteType(conc.th[t].rt)))

\* go func() { GetTypeNodes(rt) }()
CallAct(t) ==
    /\ Alive /\ conc.th[t].pc = "idle"
    /\ \E rt \in ConcTypes :
          conc' = [conc EXCEPT !.th[t] = [Idle EXCEPT !.pc = "check", !.rt = rt]]
    /\ UNCHANGED <<rootT, root, typeNodes, ref, res, paths>>

\* the goroutine returns the Nodes at address a: the caller reads its key strings
Returned(t, a) ==
    /\ res' = Res("GoNodesFor", "nil", NoVal, [k |-> "type", t |-> conc.th[t].rt], NoVal, <<>>,
                  NodesKeyStrings(conc.objs[a]), t)
    /\ conc' = [conc EXCEPT !.th[t] = Idle]

\* if nodes, ok := typeNodes[rt]; ok { return nodes }; c := ConcreteType(rt);
\* if nodes, ok := typeNodes[c]; ok { return nodes }
CheckAct(t) ==
    /\ Alive /\ conc.th[t].pc = "check"
    /\ \E rt \in {conc.th[t].rt} :
          IF rt \in DOMAIN typeNodes THEN Returned(t, typeNodes[rt])
          ELSE IF ConcreteType(rt) \in DOMAIN typeNodes THEN Returned(t, typeNodes[ConcreteType(rt)])
          ELSE conc' = [conc EXCEPT !.th[t].pc = "alloc"] /\ UNCHANGED res
    /\ UNCHANGED <<rootT, root, typeNodes, ref, paths>>

\* nodes := NewNodes(nil); typeNodes[c] = nodes
AllocAct(t) ==
    /\ Alive /\ conc.th[t].pc = "alloc"
    /\ conc' = [conc EXCEPT !.objs = Append(conc.objs, EmptyNodes),
                            !.th[t].nodes = Len(conc.objs) + 1,
                            !.th[t].pc = "fields", !.th[t].i = 0]
    /\ typeNodes' = Cached(typeNodes, ConcreteType(conc.th[t].rt), Len(conc.objs) + 1)
    /\ UNCHANGED <<rootT, root, ref, res, paths>>

\* case reflect.Struct: for i := 0; i < fields; i++ { nodes.Add(Node{...}) }
FieldAct(t) ==
    /\ Alive /\ conc.th[t].pc = "fields"
    /\ \E th \in {conc.th[t]} :
       \E c \in {ConcreteType(conc.th[t].rt)} :
          IF th.i < Len(TypeInfo(c).fields)
          THEN conc' = [conc EXCEPT
                          !.objs[th.nodes] = Add(conc.objs[th.nodes],
                                                 FieldNode(TypeInfo(c).fields[th.i + 1], th.i)),
                          !.th[t].i = th.i + 1]
          ELSE conc' = [conc EXCEPT !.th[t].pc = "pointer"]
    /\ UNCHANGED <<rootT, root, typeNodes, ref, res, paths>>

\* p := reflect.PointerTo(c); if p.NumMethod() != c.NumMethod() {
\* pnodes := nodes.Clone(); typeNodes[p] = pnodes
PointerAct(t) ==
    /\ Alive /\ conc.th[t].pc = "pointer"
    /\ \E th \in {conc.th[t]} :
       \E c \in {ConcreteType(conc.th[t].rt)} :
          IF Len(MethodSet(PointerToType(c))) # Len(MethodSet(c))
          THEN /\ conc' = [conc EXCEPT !.objs = Append(conc.objs, Clone(conc.objs[th.nodes])),
                                       !.th[t].pnodes = Len(conc.objs) + 1,
                                       !.th[t].pc = "pmethods", !.th[t].i = 0]
               /\ typeNodes' = Cached(typeNodes, PointerToType(c), Len(conc.objs) + 1)
          ELSE /\ conc' = [conc EXCEPT !.th[t].pc = "methods", !.th[t].i = 0]
               /\ UNCHANGED typeNodes
    /\ UNCHANGED <<rootT, root, ref, res, paths>>

\* addMethodNodes(p, pnodes): one pass of its loop
PMethodAct(t) ==
    /\ Alive /\ conc.th[t].pc = "pmethods"
    /\ \E th \in {conc.th[t]} :
       \E p \in {PointerToType(ConcreteType(conc.th[t].rt))} :
          IF th.i < Len(MethodSet(p))
          THEN conc' = [conc EXCEPT !.objs[th.pnodes] = MethodNode(p, conc.objs[th.pnodes], th.i),
                                   !.th[t].i = th.i + 1]
          ELSE conc' = [conc EXCEPT !.th[t].pc = "methods", !.th[t].i = 0]
    /\ UNCHANGED <<rootT, root, typeNodes, ref, res, paths>>

\* addMethodNodes(c, nodes): one pass of its loop
MethodAct(t) ==
    /\ Alive /\ conc.th[t].pc = "methods"
    /\ \E th \in {conc.th[t]} :
       \E c \in {ConcreteType(conc.th[t].rt)} :
          IF th.i < Len(MethodSet(c))
          THEN conc' = [conc EXCEPT !.objs[th.nodes] = MethodNode(c, conc.objs[th.nodes], th.i),
                                   !.th[t].i = th.i + 1]
          ELSE conc' = [conc EXCEPT !.th[t].pc = "return"]
    /\ UNCHANGED <<rootT, root, typeNodes, ref, res, paths>>

\* if exactNodes, ok := typeNodes[rt]; ok { return exactNodes }; return nodes
ReturnAct(t) ==
    /\ Alive /\ conc.th[t].pc = "return"
    /\ IF conc.th[t].rt \in DOMAIN typeNodes THEN Returned(t, typeNodes[conc.th[t].rt])
       ELSE Returned(t, conc.th[t].nodes)
    /\ UNCHANGED <<rootT, root, typeNodes, ref, paths>>

\* the map typeNodes is written by one goroutine while the other reads or
\* writes it, without synchronisation: the runtime may stop the process with
\* "fatal error: concurrent map writes" (or "concurrent map read and map write")
RaceAct(t) ==
    /\ Alive
    /\ WritesMap(t)
    /\ \E u \in Threads \ {t} : ReadsMap(u) \/ WritesMap(u)
    /\ res' = Res("GoNodesFor", "panic", NoVal, [k |-> "type", t |-> conc.th[t].rt], NoVal, <<>>,
                  <<>>, t)
    /\ UNCHANGED <<rootT, root, typeNodes, ref, conc, paths>>

ConcNext ==
    \E t \in Threads :
        \/ CallAct(t) \/ CheckAct(t) \/ AllocAct(t) \/ FieldAct(t) \/ PointerAct(t)
        \/ PMethodAct(t) \/ MethodAct(t) \/ ReturnAct(t) \/ RaceAct(t)

SpecConc == InitConc /\ [][ConcNext]_vars

(***************************************************************************)
(* The program that formats a value and decodes the text: ToString, then   *)
(* DecodeType with the value's type, as TestDecodeType compares them.      *)
(***************************************************************************)
RECURSIVE Join(_, _)
\* the texts of q with sep between them
Join(q, sep) ==
    IF q = <<>> THEN <<>>
    ELSE IF Len(q) = 1 THEN q[1]
    ELSE q[1] \o sep \o Join(Tail(q), sep)

\* the keys of a map in the order fmt prints them: sorted
SortedKeys(m) == SelectSeq(KnownStrings, LAMBDA x : x \in DOMAIN m)

RECURSIVE Format(_, _)
\* func ToString(a any) string: fmt.Sprintf("%+v", a) of the value d of type t
Format(d, t) ==
    CASE Kind(t) = "bool"   -> IF d.b THEN Chars("true") ELSE Chars("false")
      [] Kind(t) = "int"    -> IF d.n < 0 THEN <<"-">> \o ItoaChars(-d.n) ELSE ItoaChars(d.n)
      [] Kind(t) = "string" -> TextOf(d)
      [] Kind(t) \in {"array", "slice"} ->
            Let(IF Kind(t) = "slice" /\ d.nil THEN <<>> ELSE d.e, LAMBDA e :
                <<"[">> \o Join([i \in 1..Len(e) |-> Format(e[i], TypeInfo(t).elem)], <<" ">>)
                       \o <<"]">>)
      [] Kind(t) = "map" ->
            Let(IF d.nil THEN <<>> ELSE SortedKeys(d.m), LAMBDA keys :
                Chars("map[")
                  \o Join([i \in 1..Len(keys) |->
                             Chars(keys[i]) \o <<":">> \o Format(d.m[keys[i]], TypeInfo(t).elem)],
                          <<" ">>)
                  \o <<"]">>)
      [] Kind(t) = "struct" ->
            <<"{">> \o Join([i \in 1..Len(d.f) |->
                               Chars(TypeInfo(t).fields[i].Name) \o <<":">>
                                  \o Format(d.f[i], TypeInfo(t).fields[i].Type)],
                            <<" ">>)
                   \o <<"}">>

\* the types of the values formatted
DecodeTypes ==
    {"bool", "int", "string", "[2]int", "[]int", "[]bool", "[]string", "[][]int",
     "map[string]int", "point", "[]point"}

RECURSIVE DecodeValues(_)
\* the values of type t formatted: sequences of at most MaxLen elements
DecodeValues(t) ==
    CASE Kind(t) = "bool"   -> {BoolV(b) : b \in BOOLEAN}
      [] Kind(t) = "int"    -> {IntV(i) : i \in {-1, 12}}
      [] Kind(t) = "string" -> {StrV(x) : x \in {"a", "b"}}
      [] Kind(t) = "array"  ->
            {[k |-> "array", e |-> e] : e \in [1..TypeInfo(t).len -> DecodeValues(TypeInfo(t).elem)]}
      [] Kind(t) = "slice"  ->
            {DSlice(e) : e \in UNION {[1..k -> DecodeValues(TypeInfo(t).elem)] : k \in 0..MaxLen}}
      [] Kind(t) = "map"    ->
            {DMap(m) : m \in UNION {[K -> DecodeValues(TypeInfo(t).elem)] : K \in SUBSET {"Ann", "John"}}}
      [] Kind(t) = "struct" ->
            {DStruct(f) : f \in {g \in [1..Len(TypeInfo(t).fields) ->
                                         UNION {DecodeValues(TypeInfo(t).fields[i].Type) :
                                                i \in 1..Len(TypeInfo(t).fields)}] :
                                    \A i \in 1..Len(TypeInfo(t).fields) :
                                        g[i] \in DecodeValues(TypeInfo(t).fields[i].Type)}}

InitDecode ==
    /\ rootT \in DecodeTypes
    /\ root \in DecodeValues(rootT)
    /\ typeNodes = <<>>
    /\ paths = NoPaths
    /\ ref = NewPath(rootT)
    /\ res = Res("NewRef", "nil", NoVal, NoVal, NoVal, <<>>, <<>>, 0)
    /\ conc = NoConc

\* val, err := DecodeType(reflect.TypeOf(v), ToString(v))
DecodeAct ==
    /\ res.op = "NewRef"
    /\ \E s \in {Format(root, rootT)} :
       \E r \in {DecodeType(rootT, s)} :
          res' = Res("DecodeType", IF r.err THEN "decode" ELSE "nil",
                     IF r.err THEN NoVal ELSE r.val, [k |-> "text", c |-> s], NoVal, <<>>, <<>>, 0)
    /\ UNCHANGED <<conc, rootT, root, typeNodes, ref, paths>>

SpecDecode == InitDecode /\ [][DecodeAct]_vars

(***************************************************************************)
(* The program that keeps several references at once: r, a and b, each     *)
(* the result of Next on one of them.  A Path's nodes are a Go slice: a     *)
(* header [a, len, cap] onto a backing array of paths.arrs that other       *)
(* headers may share, so an append within the capacity writes where         *)
(* another path may read.                                                   *)
(***************************************************************************)
RefVars == {"r", "a", "b"}

\* a nil *Ref
NilRef == [nil |-> TRUE]

\* make([]Node, 0)
EmptySlice == [a |-> 0, len |-> 0, cap |-> 0]

\* the zero Node, which fills the unused capacity of a backing array
ZeroNode == Node("", NilKey, "", "", FALSE, NoFn, NoFn)

\* the elements a slice header shows
NodesOf(arrs, s) == IF s.len = 0 THEN <<>> ELSE SubSeq(arrs[s.a], 1, s.len)

\* the capacity append grows to when need elements do not fit in cap: the
\* double of cap, or need when that is more
GrowCap(cap, need) == IF need > 2 * cap THEN need ELSE 2 * cap

\* append(s, ns...): within the capacity the elements are written in place
\* behind s.len, otherwise into a new backing array: [arrs, s]
GoAppend(arrs, s, ns) ==
    IF ns = <<>> THEN [arrs |-> arrs, s |-> s]
    ELSE IF s.len + Len(ns) <= s.cap
    THEN [arrs |-> [arrs EXCEPT ![s.a] = [i \in 1..s.cap |->
                                            IF i > s.len /\ i <= s.len + Len(ns)
                                            THEN ns[i - s.len] ELSE @[i]]],
          s |-> [s EXCEPT !.len = s.len + Len(ns)]]
    ELSE Let(GrowCap(s.cap, s.len + Len(ns)), LAMBDA cap :
             [arrs |-> Append(arrs, [i \in 1..cap |->
                                        IF i <= s.len THEN arrs[s.a][i]
                                        ELSE IF i <= s.len + Len(ns) THEN ns[i - s.len]
                                        ELSE ZeroNode]),
              s |-> [a |-> Len(arrs) + 1, len |-> s.len + Len(ns), cap |-> cap]])

\* the Path a header stands for: its root type and the nodes it shows
PathOf(arrs, p) == [root |-> p.root, nodes |-> NodesOf(arrs, p.nodes)]

\* Path.Next appending to the receiver's own slice: append(p.nodes, *nextNode)
PathNextMem_InPlace(arrs, cache, p, key) ==
    Let(GetTypeNodes(cache, PathType(PathOf(arrs, p))), LAMBDA nextNodes :
    Let(ForKey(nextNodes.nodes, key), LAMBDA nextNode :
        IF ~nextNode.ok THEN [arrs |-> arrs, cache |-> nextNodes.cache, ok |-> FALSE, path |-> p]
        ELSE Let(GoAppend(arrs, p.nodes, <<nextNode.node>>), LAMBDA n2 :
                 [arrs |-> n2.arrs, cache |-> nextNodes.cache, ok |-> TRUE,
                  path |-> [root |-> p.root, nodes |-> n2.s]])))

\* func (p Path) Next(key any) *Path, on slices: next := NewPath(p.root);
\* next.nodes = append(next.nodes, p.nodes...); next.nodes = append(next.nodes,
\* *nextNode): [arrs, cache, ok, path], ok = FALSE for nil
PathNextMem(arrs, cache, p, key) ==
    Let(GetTypeNodes(cache, PathType(PathOf(arrs, p))), LAMBDA nextNodes :
    Let(ForKey(nextNodes.nodes, key), LAMBDA nextNode :
        IF ~nextNode.ok THEN [arrs |-> arrs, cache |-> nextNodes.cache, ok |-> FALSE, path |-> p]
        ELSE Let(GoAppend(arrs, EmptySlice, NodesOf(arrs, p.nodes)), LAMBDA n1 :
             Let(GoAppend(n1.arrs, n1.s, <<nextNode.node>>), LAMBDA n2 :
                 [arrs |-> n2.arrs, cache |-> nextNodes.cache, ok |-> TRUE,
                  path |-> [root |-> p.root, nodes |-> n2.s]]))))

\* func (r Ref) Next(key any) *Ref, on slices: [arrs, cache, ref]
RefNextMem(arrs, cache, r, key) ==
    Let(PathNextMem(arrs, cache, r.path, key), LAMBDA nextPath :
        [arrs |-> nextPath.arrs, cache |-> nextPath.cache,
         ref |-> IF ~nextPath.ok THEN NilRef
                 ELSE [nil |-> FALSE, root |-> r.root, path |-> nextPath.path]])

\* the backing arrays some variable still refers to, the others collected
Reachable(v) == {v[x].path.nodes.a : x \in {y \in DOMAIN v : ~v[y].nil}} \ {0}

\* the place of address a among the reachable ones
Rank(live, a) == Cardinality({b \in live : b <= a})

\* the memory with the unreachable backing arrays collected
Collected(arrs, v) ==
    Let(Reachable(v), LAMBDA live :
        [arrs |-> [i \in 1..Cardinality(live) |-> arrs[CHOOSE a \in live : Rank(live, a) = i]],
         v |-> [x \in DOMAIN v |->
                  IF v[x].nil THEN v[x]
                  ELSE [v[x] EXCEPT !.path.nodes.a = Rank(live, @)]]])

\* what each variable shows: nil, or its root and its Path
Shown(m) ==
    [x \in DOMAIN m.v |->
        IF m.v[x].nil THEN NilRef
        ELSE [nil |-> FALSE, root |-> m.v[x].root, path |-> PathOf(m.arrs, m.v[x].path)]]

\* the types at the root of the references kept
PathRoots == {"*persons", "*point"}

\* r := NewRef(v); var a, b *Ref
NewRefs(t, d) ==
    [arrs |-> <<>>,
     v |-> [x \in RefVars |->
              IF x = "r" THEN [nil |-> FALSE, root |-> d, path |-> [root |-> t, nodes |-> EmptySlice]]
              ELSE NilRef]]

InitPaths ==
    /\ \E i \in 1..Len(Roots) :
          /\ Roots[i].t \in PathRoots
          /\ rootT = Roots[i].t /\ root = Roots[i].d
    /\ conc = NoConc
    /\ typeNodes = <<>>
    /\ ref = NewPath(rootT)
    /\ paths = NewRefs(rootT, root)
    /\ res = Res("NewRef", "nil", NoVal, NoVal, NoVal, <<>>, <<>>, 0)

\* r = NewRef(v); a, b = nil, nil
NewRefsAct ==
    /\ res.op # "NewRef"
    /\ paths' = NewRefs(rootT, root)
    /\ res' = Res("NewRef", "nil", NoVal, NoVal, NoVal, <<>>, <<>>, 0)
    /\ UNCHANGED <<rootT, root, typeNodes, ref, conc>>

\* dst = src.Next(key), for two of the variables, the same one included
RefNextAct ==
    \E src \in RefVars, dst \in RefVars :
       /\ ~paths.v[src].nil
       /\ \E key \in Inputs(PathType(PathOf(paths.arrs, paths.v[src].path))) :
          \E n \in {RefNextMem(paths.arrs, typeNodes, paths.v[src], key)} :
             /\ typeNodes' = n.cache
             /\ paths' = Collected(n.arrs, [paths.v EXCEPT ![dst] = n.ref])
             /\ res' = Res("RefNext", IF n.ref.nil THEN "NoSuchPath" ELSE "nil", NoVal,
                           [k |-> "vars", src |-> src, dst |-> dst], Shown(paths), <<>>,
                           <<key>>, 0)
       /\ UNCHANGED <<rootT, root, ref, conc>>

SpecPaths == InitPaths /\ [][NewRefsAct \/ RefNextAct]_vars

(***************************************************************************)
(* The program that builds a Nodes collection by hand: SetTypeNodes with a *)
(* list of nodes, then Add on the *Nodes the cache returns for the type.   *)
(***************************************************************************)
\* the nodes the program adds: three that share the key string X (a field, a
\* getter method, a setter method), a field Y and a getter Sum of their own,
\* and the dynamic node of a map
AddNodes ==
    {FieldNode(Fld("X", "int", FALSE), 0),
     Node("X", StrV("X"), "string", "int", FALSE, Fn("method", 0), NoFn),
     Node("X", StrV("X"), "string", "int", FALSE, NoFn, Fn("method", 1)),
     FieldNode(Fld("Y", "int", FALSE), 1),
     Node("Sum", StrV("Sum"), "string", "int", FALSE, Fn("method", 1), NoFn),
     Node("", NilKey, "string", "int", TRUE, Fn("map", 0), Fn("map", 0))}

InitAdd ==
    /\ rootT = "point"
    /\ root = DeepZero(rootT)
    /\ typeNodes = <<>>
    /\ paths = NoPaths
    /\ ref = NewPath(rootT)
    /\ res = Res("NewRef", "nil", NoVal, NoVal, NoVal, <<>>, <<>>, 0)
    /\ conc = NoConc

\* func SetTypeNodes(rt reflect.Type, nodes []Node): typeNodes[rt] = NewNodes(nodes)
SetTypeNodesAct ==
    /\ \E initial \in UNION {[1..k -> AddNodes] : k \in 0..MaxLen} :
          /\ typeNodes' = Cached(typeNodes, rootT, NewNodes(initial))
          /\ res' = Res("SetTypeNodes", "nil", NoVal, [k |-> "nodes", ns |-> initial], NoVal, <<>>,
                        <<>>, 0)
    /\ UNCHANGED <<rootT, root, ref, conc, paths>>

\* GetTypeNodes(rt).Add(n): the *Nodes of the cache is the one added to
AddAct ==
    /\ \E n \in AddNodes :
       \E r \in {GetTypeNodes(typeNodes, rootT)} :
          /\ typeNodes' = Cached(r.cache, rootT, Add(r.nodes, n))
          /\ res' = Res("Add", "nil", NoVal, n, r.nodes, <<>>, <<>>, 0)
    /\ UNCHANGED <<rootT, root, ref, conc, paths>>

SpecAdd == InitAdd /\ [][SetTypeNodesAct \/ AddAct]_vars

(***************************************************************************)
(* The program that reads and writes a record through the nodes            *)
(* GetTypeNodes offers for its type: n.Get(n, x) on a value x, and         *)
(* n.Set(n, &x, v) on a pointer to it.                                     *)
(***************************************************************************)
\* the record types read and written
ReadTypes == {"point", "name", "shape", "base", "derived", "deep"}

RECURSIVE ReadValues(_)
\* the values of type t the program holds: every field one of two values
ReadValues(t) ==
    CASE Kind(t) = "int"    -> {IntV(5), IntV(7)}
      [] Kind(t) = "string" -> {StrV("a"), StrV("b")}
      [] Kind(t) = "struct" ->
            {DStruct(f) : f \in {g \in [1..Len(TypeInfo(t).fields) ->
                                         UNION {ReadValues(TypeInfo(t).fields[i].Type) :
                                                i \in 1..Len(TypeInfo(t).fields)}] :
                                    \A i \in 1..Len(TypeInfo(t).fields) :
                                        g[i] \in ReadValues(TypeInfo(t).fields[i].Type)}}

InitRead ==
    /\ rootT \in ReadTypes
    /\ root \in ReadValues(rootT)
    /\ typeNodes = <<>>
    /\ paths = NoPaths
    /\ ref = NewPath(rootT)
    /\ res = Res("NewRef", "nil", NoVal, NoVal, NoVal, <<>>, <<>>, 0)
    /\ conc = NoConc

\* for _, n := range GetTypeNodes(t).InOrder { if n.Get != nil { n.Get(n, x) } }
NodeGetAct ==
    /\ Alive
    /\ \E nodes \in {GetTypeNodes(typeNodes, rootT)} :
       \E i \in 1..Len(nodes.nodes.InOrder) :
       \E n \in {nodes.nodes.InOrder[i]} :
       \E b \in {ValueOf(<<>>, root, rootT)} :
          /\ n.Get # NoFn
          /\ \E r \in {NodeGet(b.h, n, b.rv)} :
                res' = Res("NodeGet",
                           IF r.rv.panic THEN "panic" ELSE IF r.rv.valid THEN "nil" ELSE "invalid",
                           IF r.rv.valid
                           THEN [k |-> "read", t |-> r.rv.t, d |-> Deep(r.h, Load(r.h, r.rv))]
                           ELSE NoVal,
                           n, root, <<>>, <<>>, 0)
          /\ typeNodes' = nodes.cache
    /\ UNCHANGED <<rootT, root, ref, conc, paths>>

\* for _, n := range GetTypeNodes(t).InOrder { if n.Set != nil { n.Set(n, &x, v) } }
NodeSetAct ==
    /\ Alive
    /\ \E nodes \in {GetTypeNodes(typeNodes, rootT)} :
       \E i \in 1..Len(nodes.nodes.InOrder) :
       \E n \in {nodes.nodes.InOrder[i]} :
       \E v \in ReadValues(n.Type) :
       \E b \in {ValueOf(<<>>, DPtr(root), PointerToType(rootT))} :
       \E x \in {ValueOf(b.h, v, n.Type)} :
          /\ n.Set # NoFn
          /\ \E r \in {NodeSet(x.h, n, b.rv, x.rv)} :
                /\ res' = Res("NodeSet", r.err, v, n, root, <<>>, <<>>, 0)
                /\ root' = Deep(r.h, Load(r.h, b.rv)).v
          /\ typeNodes' = nodes.cache
    /\ UNCHANGED <<rootT, ref, conc, paths>>

SpecRead == InitRead /\ [][NodeGetAct \/ NodeSetAct]_vars

(***************************************************************************)
(* GetTypeNodes as the goroutine runs it, call by call: conc.th holds the  *)
(* frames of the calls in progress, the innermost last, conc.objs the      *)
(* Nodes allocated, and typeNodes maps a type to the address of its Nodes. *)
(* A step is a statement, or a pass of a loop, of part_000:180-273; a      *)
(* recursive call pushes a frame and its return pops it.                   *)
(***************************************************************************)
\* the types inspected: records that embed themselves or each other, a
\* getter func type that returns itself, and types without a cycle
RecTypes ==
    {"self", "*ringB", "loop", "*point", "func() point"}

\* the frame of GetTypeNodes(rt) at its first statement; nodes is the local
\* nodes, sub what the recursive call returned, ranged over by j < n
RecFrame(rt) == [pc |-> "check", rt |-> rt, nodes |-> 0, sub |-> 0, i |-> 0, j |-> 0, n |-> 0]

InitRec ==
    /\ rootT = "int"
    /\ root = IntV(0)
    /\ typeNodes = <<>>
    /\ paths = NoPaths
    /\ ref = NewPath(rootT)
    /\ res = Res("NewRef", "nil", NoVal, NoVal, NoVal, <<>>, <<>>, 0)
    /\ conc = NoConc

\* nodes := GetTypeNodes(rt), called by the program; res.before keeps the Nodes
\* the cache held at the call
RecCallAct ==
    /\ conc.th = <<>>
    /\ \E rt \in RecTypes :
          /\ conc' = [conc EXCEPT !.th = <<RecFrame(rt)>>]
          /\ res' = Res("RecCall", "nil", NoVal, [k |-> "type", t |-> rt],
                         [t \in DOMAIN typeNodes |-> conc.objs[typeNodes[t]]], <<>>, <<>>, 1)
    /\ UNCHANGED <<rootT, root, typeNodes, ref, paths>>

\* the frames after the innermost call went on at pc and called GetTypeNodes(rt)
RecPush(pc, rt) ==
    /\ Len(conc.th) < MaxDepth
    /\ conc' = [conc EXCEPT !.th = Append([@ EXCEPT ![Len(conc.th)].pc = pc], RecFrame(rt))]
    /\ res' = [res EXCEPT !.reads = IF Len(conc.th) + 1 > @ THEN Len(conc.th) + 1 ELSE @]

\* return of the Nodes at address a: to the program, which reads the key
\* strings, or to the calling frame, which starts to range over InOrder
RecReturn(a) ==
    IF Len(conc.th) = 1
    THEN /\ res' = Res("RecNodesFor", "nil", NoVal, res.arg, res.before, <<>>,
                       NodesKeyStrings(conc.objs[a]), res.reads)
         /\ conc' = [conc EXCEPT !.th = <<>>]
    ELSE /\ conc' = [conc EXCEPT
                       !.th = [SubSeq(@, 1, Len(@) - 1) EXCEPT
                                 ![Len(conc.th) - 1].sub = a,
                                 ![Len(conc.th) - 1].j = 0,
                                 ![Len(conc.th) - 1].n = Len(conc.objs[a].InOrder)]]
         /\ UNCHANGED res

\* if nodes, ok := typeNodes[rt]; ok { return nodes }; c := ConcreteType(rt);
\* if nodes, ok := typeNodes[c]; ok { return nodes }
RecCheckAct ==
    /\ conc.th # <<>>
    /\ \E f \in {conc.th[Len(conc.th)]} :
          /\ f.pc = "check"
          /\ IF f.rt \in DOMAIN typeNodes THEN RecReturn(typeNodes[f.rt])
             ELSE IF ConcreteType(f.rt) \in DOMAIN typeNodes
             THEN RecReturn(typeNodes[ConcreteType(f.rt)])
             ELSE conc' = [conc EXCEPT !.th[Len(conc.th)].pc = "alloc"] /\ UNCHANGED res
    /\ UNCHANGED <<rootT, root, typeNodes, ref, paths>>

\* nodes := NewNodes(nil), the entry of the cache left for the end of the call
RecAllocAct_Late ==
    /\ conc.th # <<>>
    /\ \E f \in {conc.th[Len(conc.th)]} :
          /\ f.pc = "alloc"
          /\ conc' = [conc EXCEPT !.objs = Append(@, EmptyNodes),
                                  !.th[Len(conc.th)].nodes = Len(conc.objs) + 1,
                                  !.th[Len(conc.th)].pc = "kind"]
          /\ typeNodes' = typeNodes
    /\ UNCHANGED <<rootT, root, ref, res, paths>>

\* nodes := NewNodes(nil); typeNodes[c] = nodes
RecAllocAct ==
    /\ conc.th # <<>>
    /\ \E f \in {conc.th[Len(conc.th)]} :
          /\ f.pc = "alloc"
          /\ conc' = [conc EXCEPT !.objs = Append(@, EmptyNodes),
                                  !.th[Len(conc.th)].nodes = Len(conc.objs) + 1,
                                  !.th[Len(conc.th)].pc = "kind"]
          /\ typeNodes' = Cached(typeNodes, ConcreteType(f.rt), Len(conc.objs) + 1)
    /\ UNCHANGED <<rootT, root, ref, res, paths>>

\* switch c.Kind(): the nodes of a map, a slice or an array are added; a getter
\* func calls GetTypeNodes(c.Out(0)); a struct starts the loop over its fields
RecKindAct ==
    /\ conc.th # <<>>
    /\ \E f \in {conc.th[Len(conc.th)]} :
       \E c \in {ConcreteType(f.rt)} :
          /\ f.pc = "kind"
          /\ IF Kind(c) = "func" /\ IsGetter(TypeInfo(c)) THEN RecPush("func", TypeInfo(c).Out)
             ELSE /\ conc' = [conc EXCEPT
                                !.objs[f.nodes] =
                                    IF Kind(c) \in {"map", "slice", "array"}
                                    THEN KindNodes(c :> @, c)[c] ELSE @,
                                !.th[Len(conc.th)].pc =
                                    IF Kind(c) = "struct" THEN "fields" ELSE "pointer"]
                  /\ UNCHANGED res
    /\ UNCHANGED <<rootT, root, typeNodes, ref, paths>>

\* for i := 0; i < fields; i++: an embedded field calls GetTypeNodes(field.Type),
\* any other field adds its node
RecFieldAct ==
    /\ conc.th # <<>>
    /\ \E f \in {conc.th[Len(conc.th)]} :
       \E c \in {ConcreteType(f.rt)} :
          /\ f.pc = "fields"
          /\ IF f.i >= Len(TypeInfo(c).fields)
             THEN conc' = [conc EXCEPT !.th[Len(conc.th)].pc = "pointer"] /\ UNCHANGED res
             ELSE IF TypeInfo(c).fields[f.i + 1].Anonymous
             THEN RecPush("embed", TypeInfo(c).fields[f.i + 1].Type)
             ELSE /\ conc' = [conc EXCEPT
                                !.objs[f.nodes] = Add(@, FieldNode(TypeInfo(c).fields[f.i + 1], f.i)),
                                !.th[Len(conc.th)].i = f.i + 1]
                  /\ UNCHANGED res
    /\ UNCHANGED <<rootT, root, typeNodes, ref, paths>>

\* for _, n := range embeddedNodes.InOrder { nodes.Add(n) }; the range runs over
\* the length InOrder had when the call returned
RecEmbedAct ==
    /\ conc.th # <<>>
    /\ \E f \in {conc.th[Len(conc.th)]} :
          /\ f.pc = "embed"
          /\ IF f.j < f.n
             THEN conc' = [conc EXCEPT !.objs[f.nodes] = Add(@, conc.objs[f.sub].InOrder[f.j + 1]),
                                      !.th[Len(conc.th)].j = f.j + 1]
             ELSE conc' = [conc EXCEPT !.th[Len(conc.th)].pc = "fields",
                                      !.th[Len(conc.th)].i = f.i + 1]
    /\ UNCHANGED <<rootT, root, typeNodes, ref, res, paths>>

\* for _, rn := range returnNodes.InOrder { node := rn; ...; nodes.Add(node) }
RecFuncAct ==
    /\ conc.th # <<>>
    /\ \E f \in {conc.th[Len(conc.th)]} :
          /\ f.pc = "func"
          /\ IF f.j < f.n
             THEN conc' = [conc EXCEPT
                             !.objs[f.nodes] = Add(@, CallNode(conc.objs[f.sub].InOrder[f.j + 1])),
                             !.th[Len(conc.th)].j = f.j + 1]
             ELSE conc' = [conc EXCEPT !.th[Len(conc.th)].pc = "pointer"]
    /\ UNCHANGED <<rootT, root, typeNodes, ref, res, paths>>

\* p := reflect.PointerTo(c); if p.NumMethod() != c.NumMethod() { pnodes :=
\* nodes.Clone(); typeNodes[p] = pnodes; addMethodNodes(p, pnodes) };
\* addMethodNodes(c, nodes)
RecPointerAct ==
    /\ conc.th # <<>>
    /\ \E f \in {conc.th[Len(conc.th)]} :
       \E c \in {ConcreteType(f.rt)} :
       \E p \in {PointerToType(ConcreteType(f.rt))} :
          /\ f.pc = "pointer"
          /\ IF Len(MethodSet(p)) # Len(MethodSet(c))
             THEN /\ conc' = [conc EXCEPT
                                !.objs = Append([@ EXCEPT ![f.nodes] = addMethodNodes(c, @)],
                                                addMethodNodes(p, Clone(conc.objs[f.nodes]))),
                                !.th[Len(conc.th)].pc = "return"]
                  /\ typeNodes' = Cached(typeNodes, p, Len(conc.objs) + 1)
             ELSE /\ conc' = [conc EXCEPT !.objs[f.nodes] = addMethodNodes(c, @),
                                          !.th[Len(conc.th)].pc = "return"]
                  /\ UNCHANGED typeNodes
    /\ UNCHANGED <<rootT, root, ref, res, paths>>

\* if exactNodes, ok := typeNodes[rt]; ok { return exactNodes }; return nodes
RecReturnAct ==
    /\ conc.th # <<>>
    /\ \E f \in {conc.th[Len(conc.th)]} :
          /\ f.pc = "return"
          /\ IF f.rt \in DOMAIN typeNodes THEN RecReturn(typeNodes[f.rt]) ELSE RecReturn(f.nodes)
    /\ UNCHANGED <<rootT, root, typeNodes, ref, paths>>

\* a statement of the call in progress
RecStep ==
    \/ RecCheckAct \/ RecAllocAct \/ RecKindAct \/ RecFieldAct \/ RecEmbedAct \/ RecFuncAct
    \/ RecPointerAct \/ RecReturnAct

\* the goroutine keeps running the call it is in
SpecRec == InitRec /\ [][RecCallAct \/ RecStep]_vars /\ WF_vars(RecStep)

(***************************************************************************)
(* Helpers of the properties: Get and Set applied to a root tree, and the  *)
(* paths Next builds over a root type.                                     *)
(***************************************************************************)
\* Path.Get of the nodes on the root d of type t: [err, val, reads]
GetOn(d, t, nodes) ==
    Let(ValueOf(<<>>, d, t), LAMBDA b :
    Let(PathGet(b.h, [root |-> t, nodes |-> nodes], b.rv), LAMBDA r :
        [err |-> r.err, val |-> IF r.err = "nil" THEN Deep(r.h, Load(r.h, r.rv)) ELSE NoVal,
         reads |-> r.reads]))

\* Path.Set of v at the nodes on the root d of type t: [err, root]
SetOn(d, t, nodes, v) ==
    Let(ValueOf(<<>>, d, t), LAMBDA b :
    Let([root |-> t, nodes |-> nodes], LAMBDA p :
    Let(ValueOf(b.h, v, PathType(p)), LAMBDA x :
    Let(PathSet(x.h, p, b.rv, x.rv), LAMBDA r :
        [err |-> r.err, root |-> Deep(r.h, Load(r.h, b.rv))]))))

RECURSIVE PathsFrom(_, _)
\* every path Next builds from p with the keys offered, under the cache
PathsFrom(cache, p) ==
    {p} \cup UNION { Let(PathNext(cache, p, key), LAMBDA n :
                         IF n.ok THEN PathsFrom(n.cache, n.path) ELSE {})
                     : key \in Inputs(PathType(p)) }

\* a node that stores a value: a record field, a map entry or a sequence slot
Stored(n) == n.Get.f \in {"field", "map", "index"} /\ n.Set.f \in {"field", "map", "index"}

AllStored(nodes) == \A i \in 1..Len(nodes) : Stored(nodes[i])

IsPrefix(a, b) ==
    /\ Len(a) <= Len(b)
    /\ \A i \in 1..Len(a) : a[i].KeyString = b[i].KeyString

\* neither a prefix nor an extension of the other
Apart(a, b) == ~IsPrefix(a, b) /\ ~IsPrefix(b, a)

\* the last operation was a Set that returned no error
SetDone == res.op = "Set" /\ res.err = "nil"

\* C1: after a Set through a pointer root at a path of record fields, map
\* entries and sequence slots has returned no error, Get at the same path
\* returns the value set, whatever was missing along the path before
C1_RoundTrip ==
    (SetDone /\ Kind(rootT) = "ptr" /\ AllStored(res.path0))
        => LET g == GetOn(root, rootT, res.path0)
           IN g.err = "nil" /\ g.val = res.arg

\* C1's case: a field set two levels below a map entry that did not exist,
\* the map itself nil before
C1_Witness ==
    /\ SetDone /\ rootT = "*persons" /\ Len(res.path0) = 4
    /\ res.before = DPtr(DeepZero("persons"))
    /\ res.arg = StrV("John")
    /\ GetOn(root, rootT, res.path0).val = StrV("John")

\* every path Next builds from the root's type
Paths == PathsFrom(typeNodes, NewPath(rootT))

\* Get at q returned the same before and after the last operation
SameAt(q) == GetOn(root, rootT, q.nodes) = GetOn(res.before, rootT, q.nodes)

\* q lies apart from the path just set and could be read before the Set
Beside(q) ==
    /\ Apart(q.nodes, res.path0)
    /\ GetOn(res.before, rootT, q.nodes).err = "nil"

\* C2 as stated: after a successful Set at a path P of record fields, map
\* entries and sequence slots, every path Q built by Next that is neither a
\* prefix nor an extension of P and could be read before reads the same after
C2_FrameAnyPath ==
    (SetDone /\ AllStored(res.path0)) => \A q \in Paths : Beside(q) => SameAt(q)

\* C2, amended: the same for every such Q that is itself made only of record
\* fields, map entries and sequence slots; a path through a getter method
\* reads what the method computes from the record, the value at P included
C2_Frame ==
    (SetDone /\ AllStored(res.path0))
        => \A q \in Paths : (AllStored(q.nodes) /\ Beside(q)) => SameAt(q)

\* C2's case: Last = "Doe" set in a map entry stored by value whose First was
\* "John" already; First is kept and the getter Full reads "Doe, John"
C2_Witness ==
    /\ SetDone /\ rootT = "*persons"
    /\ KeyStrings([nodes |-> res.path0]) = <<"ByName", "John", "Name", "Last">>
    /\ res.arg = StrV("Doe")
    /\ res.before = DPtr(DStruct(<<DMap("John" :> DStruct(<<DStruct(<<StrV("John"), StrV("")>>)>>))>>))
    /\ \E q \in Paths :
         /\ KeyStrings(q) = <<"ByName", "John", "Name", "First">>
         /\ Beside(q) /\ GetOn(root, rootT, q.nodes).val = StrV("John")
    /\ \E q \in Paths :
         /\ KeyStrings(q) = <<"ByName", "John", "Name", "Full">>
         /\ GetOn(res.before, rootT, q.nodes).val = StrV(", John")
         /\ GetOn(root, rootT, q.nodes).val = StrV("Doe, John")

\* C3: repeating a Set that succeeded, with the same value, succeeds and
\* leaves the whole root as the first Set left it
C3_Idempotent ==
    SetDone => LET again == SetOn(root, rootT, res.path0, res.arg)
               IN again.err = "nil" /\ again.root = root

\* C3's case: the first Set grew a sequence and vivified what holds it
C3_Witness ==
    /\ SetDone /\ rootT = "*map[string][]int" /\ Len(res.path0) = 2
    /\ res.before = DPtr(DMap(<<>>))
    /\ res.path0[2].Key = IntV(2)
    /\ root # res.before

\* the type Next was applied to: the end of the path before the step
TypeAt(nodes) == ConcreteType(PathType([root |-> rootT, nodes |-> nodes]))

\* the decimals of the indices 0..n-1
Decimals(n) == {Itoa(i) : i \in 0 .. n - 1}

\* C4: on a fixed-size array of length N, Next(k) resolves exactly when the
\* string form of k is the decimal of an index in 0..N-1, whether k is an
\* integer or a string; every node of the reference that applies to an array
\* is one of its N indices, and an array in the root keeps its length
C4_ArrayNext ==
    /\ (res.op = "Next" /\ Kind(TypeAt(res.path0)) = "array")
          => (res.err = "nil" <=> ToStringV(res.keys[1]) \in Decimals(TypeInfo(TypeAt(res.path0)).len))
    /\ \A i \in 1..Len(ref.nodes) :
          Kind(TypeAt(SubSeq(ref.nodes, 1, i - 1))) = "array"
              => /\ ref.nodes[i].Key.k = "int"
                 /\ ref.nodes[i].Key.n \in 0 .. TypeInfo(TypeAt(SubSeq(ref.nodes, 1, i - 1))).len - 1
    /\ (Kind(TypeAt(<<>>)) = "array" /\ res.err # "panic")
          => Len(root.v.e) = TypeInfo(TypeAt(<<>>)).len

\* C4's case: index N offered to Next on an array of length N
C4_Witness ==
    /\ res.op = "Next" /\ rootT = "*[2]int" /\ res.path0 = <<>>
    /\ res.keys = <<IntV(2)>> /\ res.err = "NoSuchPath" /\ ref.nodes = <<>>

\* the sequence a value read at a path stands for, behind a pointer or not
Elems(val) ==
    IF val.k = "ptr" THEN (IF val.v.nil THEN <<>> ELSE val.v.e)
    ELSE IF val.nil THEN <<>> ELSE val.e

\* the path without its last node
Front(nodes) == SubSeq(nodes, 1, Len(nodes) - 1)

\* the last operation was a Set through a pointer root whose final node is a
\* non-negative index of a growable sequence that Get could read before
SetAtSlot ==
    /\ res.op = "Set" /\ Kind(rootT) = "ptr" /\ Len(res.path0) > 0
    /\ res.path0[Len(res.path0)].Set.f = "index"
    /\ res.path0[Len(res.path0)].Key.n >= 0
    /\ Kind(TypeAt(Front(res.path0))) = "slice"
    /\ GetOn(res.before, rootT, Front(res.path0)).err = "nil"

\* C5: a Set at index i of a growable sequence of length n reached from a
\* pointer root succeeds; afterwards the length is i+1 when i >= n and n
\* otherwise, element i is the value set, the elements below n keep their
\* values and those from n to i-1 are zero values
C5_Growth ==
    SetAtSlot =>
        LET i == res.path0[Len(res.path0)].Key.n
            old == Elems(GetOn(res.before, rootT, Front(res.path0)).val)
            now == GetOn(root, rootT, Front(res.path0))
        IN /\ res.err = "nil"
           /\ now.err = "nil"
           /\ Len(Elems(now.val)) = (IF i >= Len(old) THEN i + 1 ELSE Len(old))
           /\ \A j \in 1..Len(Elems(now.val)) :
                 Elems(now.val)[j] = (IF j = i + 1 THEN res.arg
                                      ELSE IF j <= Len(old) THEN old[j]
                                      ELSE DeepZero(res.path0[Len(res.path0)].Type))

\* C5's case: index 2 set on a sequence of length 1, which grows to length 3
C5_Witness ==
    /\ SetAtSlot /\ rootT = "*[]int"
    /\ res.before = DPtr(DSlice(<<IntV(5)>>))
    /\ res.path0[1].Key = IntV(2) /\ res.arg = IntV(5)
    /\ root = DPtr(DSlice(<<IntV(5), IntV(0), IntV(5)>>))

\* the map entry node i of the path reads is missing from the root: the map
\* is nil or lacks the key
MissingAt(nodes, i) ==
    LET m == GetOn(root, rootT, SubSeq(nodes, 1, i - 1))
    IN /\ nodes[i].Get.f = "map"
       /\ m.err = "nil"
       /\ LET c == IF m.val.k = "ptr" THEN m.val.v ELSE m.val
          IN c.k = "map" /\ (c.nil \/ RawKey(nodes[i].Key) \notin DOMAIN c.m)

\* C6: Get reads the nodes in path order and stops at the first that fails:
\* an empty path returns the root and no error; no error means every node
\* was read; NotReadable means the node after the last read has no read
\* function; InvalidResult means the last node read is a map entry that is
\* missing; in each case the nodes before were read and none after
C6_GetErrors ==
    res.op = "Get" =>
        /\ res.path0 = <<>> => (res.err = "nil" /\ res.val = root /\ res.reads = 0)
        /\ res.reads \in 0 .. Len(res.path0)
        /\ \A j \in 1..res.reads : res.path0[j].Get.f # "nil"
        /\ res.err = "nil" => res.reads = Len(res.path0)
        /\ res.err = "ErrGetNotSupported"
              => /\ res.reads < Len(res.path0)
                 /\ res.path0[res.reads + 1].Get.f = "nil"
                 /\ GetOn(root, rootT, SubSeq(res.path0, 1, res.reads)).err = "nil"
        /\ res.err = "ErrGetInvalid"
              => /\ res.reads >= 1
                 /\ MissingAt(res.path0, res.reads)
        /\ (\E j \in 1..Len(res.path0) : res.path0[j].Get.f = "nil")
              => res.err # "nil"

\* C6's case: a path whose first node cannot be read and has a node after it
C6_Witness ==
    /\ res.op = "Get" /\ res.err = "ErrGetNotSupported"
    /\ Len(res.path0) = 2 /\ res.reads = 0
    /\ res.path0[1].Get.f = "nil" /\ res.path0[2].Get.f # "nil"

\* the nodes of a path the first loop of Set rejects
Offending(nodes) ==
    {i \in 1..Len(nodes) : nodes[i].Set.f = "nil" \/ (nodes[i].Get.f = "nil" /\ i < Len(nodes))}

FirstOffending(nodes) == CHOOSE i \in Offending(nodes) : \A j \in Offending(nodes) : i <= j

\* C7 as stated: a Set on a path with a node that has no write function
\* returns NotWritable, one on a path with a node before the last that has no
\* read function returns NotReadable, and the root is as before
C7_AnyNode ==
    res.op = "Set" =>
        /\ (\E i \in 1..Len(res.path0) : res.path0[i].Set.f = "nil")
              => (res.err = "ErrSetNotSupported" /\ root = res.before)
        /\ (\E i \in 1..Len(res.path0) - 1 : res.path0[i].Get.f = "nil")
              => (res.err = "ErrGetNotSupported" /\ root = res.before)

\* C7, amended: a Set on a path with a node the check rejects returns the
\* error of the first such node in path order, NotWritable when it has no
\* write function and NotReadable otherwise, and the root is as before
C7_FailFast ==
    (res.op = "Set" /\ Offending(res.path0) # {})
        => /\ res.err = (IF res.path0[FirstOffending(res.path0)].Set.f = "nil"
                         THEN "ErrSetNotSupported" ELSE "ErrGetNotSupported")
           /\ root = res.before

\* C7's case: the first node has no read function, the last no write function
C7_Witness ==
    /\ res.op = "Set" /\ Len(res.path0) = 2
    /\ res.path0[1].Get.f = "nil" /\ res.path0[1].Set.f # "nil"
    /\ res.path0[2].Set.f = "nil"
    /\ res.err = "ErrGetNotSupported" /\ root = res.before

RECURSIVE FoldNext(_, _, _)
\* Next applied key by key from the left, up to the first key that does not
\* resolve: [ok, path]
FoldNext(cache, p, keys) ==
    IF keys = <<>> THEN [ok |-> TRUE, path |-> p]
    ELSE LET n == PathNext(cache, p, Head(keys))
         IN IF n.ok THEN FoldNext(n.cache, n.path, Tail(keys)) ELSE [ok |-> FALSE, path |-> p]

\* C8 as stated: Nexts(keys) returns the reference Next(k1)...Next(kn) when
\* every key resolves (the same reference for no keys) and absence as soon as
\* a key at any position does not, without crashing
C8_NextsFold ==
    res.op = "Nexts" =>
        LET f == FoldNext(typeNodes, [root |-> rootT, nodes |-> res.path0], res.keys)
        IN IF f.ok THEN res.err = "nil" /\ ref = f.path
           ELSE res.err = "NoSuchPath" /\ ref.nodes = res.path0

\* C8's failing case: two keys of which the first does not resolve
C8_Witness ==
    /\ res.op = "Nexts" /\ rootT = "*point" /\ res.path0 = <<>>
    /\ res.keys = <<StrV("Nope"), StrV("Nope")>>
    /\ res.err = "panic"

\* C9 as stated: on a record root that was not passed as a pointer, a Set on
\* a non-empty path of record fields returns ErrSetNotSupported, whatever the
\* length of the path
C9_ValueRoot ==
    (/\ res.op = "Set" /\ Kind(rootT) = "struct" /\ Len(res.path0) > 0
     /\ \A i \in 1..Len(res.path0) : res.path0[i].Get.f = "field" /\ res.path0[i].Set.f = "field")
        => res.err = "ErrSetNotSupported"

\* C9's failing case: a Set two fields deep returns no error and the root
\* still reads the old value
C9_Witness ==
    /\ res.op = "Set" /\ rootT = "outer" /\ res.err = "nil"
    /\ KeyStrings([nodes |-> res.path0]) = <<"In", "X">>
    /\ res.arg = IntV(5)
    /\ root = res.before
    /\ GetOn(root, rootT, res.path0).val = IntV(0)

\* C10 as stated: Get and Set end with no error or with one of the three
\* error values, never with a crash
C10_NoCrash ==
    res.op \in {"Get", "Set"}
        => res.err \in {"nil", "ErrGetNotSupported", "ErrSetNotSupported", "ErrGetInvalid"}

\* C10's failing case: a read of index 1 of a sequence of length 1
C10_Witness ==
    /\ res.op = "Get" /\ rootT = "*[]int" /\ root = DPtr(DSlice(<<IntV(5)>>))
    /\ Len(res.path0) = 1 /\ res.path0[1].Key = IntV(1)
    /\ res.err = "panic"

\* C11: SetString decodes the text against the type of the path's last node
\* (the root type for an empty path) and then does what Set does with the
\* decoded value: the same error and the same root; when the text does not
\* decode it returns the decoder's error and the root is as before
C11_SetString ==
    res.op = "SetString" =>
        LET dec == DecodeType(PathType([root |-> rootT, nodes |-> res.path0]), res.arg.c)
            set == SetOn(res.before, rootT, res.path0, dec.val)
        IN IF dec.err THEN res.err = "decode" /\ root = res.before
           ELSE res.err = set.err /\ root = set.root

\* C11's case: a text decoded to a value that Set stored below the root
C11_Witness ==
    /\ res.op = "SetString" /\ res.err = "nil"
    /\ Len(res.path0) >= 1 /\ root # res.before
    /\ GetOn(root, rootT, res.path0).val = DPoint(5, 5)

\* C11's other case: a text the decoder rejects
C11_Rejected ==
    res.op = "SetString" /\ res.err = "decode" /\ res.arg.c # <<>> /\ Len(res.path0) >= 1

\* the key strings GetTypeNodes returns for t when nothing is cached
FreshKeys(t) == NodesKeyStrings(GetTypeNodes(<<>>, t).nodes)

\* C12: the key strings GetTypeNodes returns for a type are those it returns
\* for that type on an empty cache, whichever types were inspected before
C12_Deterministic ==
    res.op = "NodesFor" => res.keys = FreshKeys(res.arg.t)

\* C12's case: a type inspected after a type that embeds it
C12_Witness ==
    /\ res.op = "NodesFor" /\ res.arg.t = "ringB"
    /\ "ringA" \in DOMAIN typeNodes
    /\ res.keys # FreshKeys("ringB")

\* C12's case where it holds: a type inspected after the type that embeds it,
\* without a cycle
C12_Acyclic ==
    /\ res.op = "NodesFor" /\ res.arg.t = "base"
    /\ "deep" \in DOMAIN typeNodes
    /\ res.keys = <<"ID", "Tag">>

\* a sequence without the repeats of its elements, the first of each kept
RECURSIVE Dedup(_)
Dedup(q) ==
    IF q = <<>> THEN <<>>
    ELSE LET f == Dedup(SubSeq(q, 1, Len(q) - 1))
         IN IF \E i \in 1..Len(f) : f[i] = q[Len(q)] THEN f ELSE Append(f, q[Len(q)])

RECURSIVE Flat(_)
Flat(qs) == IF qs = <<>> THEN <<>> ELSE Head(qs) \o Flat(Tail(qs))

\* the names of the accessor methods in a method list
AccessorNames(ms) ==
    LET acc == SelectSeq(ms, LAMBDA m : IsGetter(m) \/ IsSetter(m))
    IN [i \in 1..Len(acc) |-> acc[i].Name]

FieldNames(c) == [i \in 1..Len(TypeInfo(c).fields) |-> TypeInfo(c).fields[i].Name]

HasEmbedded(c) == \E i \in 1..Len(TypeInfo(c).fields) : TypeInfo(c).fields[i].Anonymous

\* C13: for a record type T without embedded fields GetTypeNodes lists the
\* fields in declaration order and then the accessor methods with a value
\* receiver; for the pointer to T the same fields and then the accessor
\* methods of both receiver kinds, so a method on the pointer receiver is
\* never listed for T, whichever of the two was inspected first
C13_FieldsThenMethods ==
    (res.op = "NodesFor" /\ Kind(ConcreteType(res.arg.t)) = "struct"
        /\ ~HasEmbedded(ConcreteType(res.arg.t)))
    => LET c == ConcreteType(res.arg.t)
       IN /\ res.keys = Dedup(FieldNames(c) \o AccessorNames(MethodSet(res.arg.t)))
          /\ res.arg.t = "point" => res.keys = <<"X", "Y", "Sum">>
          /\ res.arg.t = "*point" => res.keys = <<"X", "Y", "Set", "Sum">>
          /\ c \in DOMAIN typeNodes
          /\ \A i \in 1..Len(Declared(c)) :
                Declared(c)[i].PtrRecv
                   => \A j \in 1..Len(typeNodes[c].InOrder) :
                         typeNodes[c].InOrder[j].KeyString # Declared(c)[i].Name

\* C13's case: the record inspected, the entry of its pointer in the cache
C13_Witness ==
    /\ res.op = "NodesFor" /\ res.arg.t = "point"
    /\ "*point" \in DOMAIN typeNodes
    /\ res.keys = <<"X", "Y", "Sum">>
    /\ NodesKeyStrings(typeNodes["*point"]) = <<"X", "Y", "Set", "Sum">>

\* the key strings the cache holds for the fields of c: a field's name, and
\* for an embedded field the key strings of its type
PromotedKeys(c) ==
    Dedup(Flat([i \in 1..Len(TypeInfo(c).fields) |->
                  IF TypeInfo(c).fields[i].Anonymous
                  THEN NodesKeyStrings(GetTypeNodes(typeNodes, TypeInfo(c).fields[i].Type).nodes)
                  ELSE <<TypeInfo(c).fields[i].Name>>]))

\* C14: for a record type with an embedded field GetTypeNodes lists, at the
\* field's position, the key strings of the embedded type in place of the
\* field's name, and lists no key twice
C14_Promotion ==
    (res.op = "NodesFor" /\ Kind(ConcreteType(res.arg.t)) = "struct"
        /\ HasEmbedded(ConcreteType(res.arg.t)))
    => /\ res.keys = Dedup(PromotedKeys(ConcreteType(res.arg.t))
                             \o AccessorNames(MethodSet(res.arg.t)))
       /\ \A i, j \in 1..Len(res.keys) : res.keys[i] = res.keys[j] => i = j

\* C14's case where it holds: embedding inside embedding, a key of the parent kept
C14_Witness ==
    /\ res.op = "NodesFor" /\ res.arg.t = "deep"
    /\ res.keys = <<"Tag", "ID", "Extra", "Z">>

\* C14's failing case: ringB inspected after ringA lacks the key X of ringA
C14_Cyclic ==
    /\ res.op = "NodesFor" /\ res.arg.t = "ringB"
    /\ res.keys = <<"Y">>
    /\ NodesKeyStrings(typeNodes["ringA"]) = <<"Y", "X">>

\* C15: with two goroutines calling GetTypeNodes, a call returns, without
\* a crash, the Nodes whose key strings are those a call alone returns, and
\* when no call is under way every entry of the cache is complete
C15_Concurrent ==
    /\ res.op = "GoNodesFor"
          => (res.err = "nil" /\ res.keys = FreshKeys(res.arg.t))
    /\ (res.err # "panic" /\ \A t \in Threads : conc.th[t].pc = "idle")
          => \A ty \in DOMAIN typeNodes :
                NodesKeyStrings(conc.objs[typeNodes[ty]]) = FreshKeys(ty)

\* C15's failing case: a call returned, while the other goroutine was still
\* filling them, Nodes that lack keys
C15_Partial ==
    /\ res.op = "GoNodesFor" /\ res.err = "nil"
    /\ Len(res.keys) < Len(FreshKeys(res.arg.t))
    /\ \E t \in Threads : conc.th[t].pc \in {"fields", "pointer", "pmethods", "methods"}

\* C15's other failing case: the unsynchronised map access stopped the process
C15_Race == res.op = "GoNodesFor" /\ res.err = "panic"

\* a node made from a getter method or from a func that is a getter
FromGetter(n) == n.Get.f \in {"method", "call"}

\* every node in the cache made from a getter has no write function
GettersReadOnly ==
    \A t \in DOMAIN typeNodes : \A i \in 1..Len(typeNodes[t].InOrder) :
        FromGetter(typeNodes[t].InOrder[i]) => typeNodes[t].InOrder[i].Set.f = "nil"

\* C16 as stated: a node made from a getter has no write function, and a Set
\* on a path with such a node at any position returns NotWritable with the
\* root as before
C16_AnyPosition ==
    /\ GettersReadOnly
    /\ (res.op = "Set" /\ \E i \in 1..Len(res.path0) : FromGetter(res.path0[i]))
          => (res.err = "ErrSetNotSupported" /\ root = res.before)

\* C16, amended: a node made from a getter has no write function, and a Set
\* on a path with such a node fails with the root as before: with
\* NotReadable when a node before the first such node has no read function,
\* with NotWritable otherwise
C16_Getter ==
    /\ GettersReadOnly
    /\ (res.op = "Set" /\ \E i \in 1..Len(res.path0) : FromGetter(res.path0[i]))
          => LET g == CHOOSE i \in 1..Len(res.path0) :
                         /\ FromGetter(res.path0[i])
                         /\ \A j \in 1..i - 1 : ~FromGetter(res.path0[j])
             IN /\ root = res.before
                /\ res.err = IF \E j \in 1..g - 1 : res.path0[j].Get.f = "nil"
                              THEN "ErrGetNotSupported" ELSE "ErrSetNotSupported"

\* C16's case: a Set through a getter that is not the last node of the path
C16_Witness ==
    /\ res.op = "Set" /\ Len(res.path0) = 2
    /\ FromGetter(res.path0[1]) /\ ~FromGetter(res.path0[2])
    /\ res.err = "ErrSetNotSupported" /\ root = res.before

\* C16's case for a func: a Set on a node reached through a field that holds a getter
C16_Func ==
    /\ res.op = "Set" /\ Len(res.path0) = 2
    /\ res.path0[1].KeyString = "Pos" /\ res.path0[2].Get.f = "call"
    /\ res.err = "ErrSetNotSupported" /\ root = res.before

\* the case C16 misses: a getter after a setter method, which cannot be read
C16_AfterSetter ==
    /\ res.op = "Set" /\ Len(res.path0) = 2
    /\ res.path0[1].Get.f = "nil" /\ FromGetter(res.path0[2])
    /\ res.err = "ErrGetNotSupported"

\* C17: a value whose formatted text the decoder accepts decodes to a value
\* equal to it
C17_RoundTrip ==
    (res.op = "DecodeType" /\ res.err = "nil") => res.val = root

\* C17's failing case: a sequence of sequences whose text decodes, without an
\* error, to a value that is another and formats as another
C17_Nested ==
    /\ res.op = "DecodeType" /\ res.err = "nil" /\ rootT = "[][]int"
    /\ res.val # root
    /\ Format(res.val, rootT) # Format(root, rootT)

\* C17's case where it holds: a value that is not nested
C17_Flat ==
    /\ res.op = "DecodeType" /\ res.err = "nil" /\ rootT = "map[string]int"
    /\ Cardinality(DOMAIN root.m) = 2
    /\ res.val = root

\* GetValueNodes of what Get reads at the nodes on the root d of type t:
\* [cache, st, nodes]
ValueNodesOn(d, t, nodes) ==
    LET b == ValueOf(<<>>, d, t)
        g == PathGet(b.h, [root |-> t, nodes |-> nodes], b.rv)
    IN GetValueNodes(g.h, typeNodes, g.rv)

\* the elements of a sequence
Range(q) == {q[i] : i \in 1..Len(q)}

\* C18: when Get succeeds, NextNodes returns the nodes GetValueNodes gives
\* for the value Get read, and not nil
C18_NextNodes ==
    (res.op = "NextNodes" /\ GetOn(res.before, rootT, res.path0).err = "nil")
        => /\ res.err = "nil"
           /\ res.val.k = "nodes"
           /\ Range(res.keys)
                 = Range(NodesKeyStrings(ValueNodesOn(res.before, rootT, res.path0).nodes))

\* C18's failing case: Get reads a record and NextNodes returns nil
C18_Witness ==
    /\ res.op = "NextNodes" /\ rootT = "*point" /\ res.path0 = <<>>
    /\ GetOn(res.before, rootT, res.path0).err = "nil"
    /\ NodesKeyStrings(ValueNodesOn(res.before, rootT, res.path0).nodes)
          = <<"X", "Y", "Set", "Sum">>
    /\ res.err = "nil" /\ res.val.k = "nilnodes"

\* what NextNodes does when Get fails: GetValueNodes of the zero Value panics
C18_Crash ==
    /\ res.op = "NextNodes" /\ res.err = "panic"
    /\ GetOn(res.before, rootT, res.path0).err \in {"ErrGetInvalid", "ErrGetNotSupported"}

\* node k of the path is an index at or beyond the length of the growable
\* sequence that Get read at the nodes before it, before the Set
BeyondAt(nodes, k) ==
    LET s == GetOn(res.before, rootT, SubSeq(nodes, 1, k - 1))
    IN /\ nodes[k].Get.f = "index" /\ nodes[k].Key.k = "int"
       /\ s.err = "nil"
       /\ LET c == IF s.val.k = "ptr" /\ ~s.val.nil THEN s.val.v ELSE s.val
          IN /\ c.k = "slice"
             /\ nodes[k].Key.n >= (IF c.nil THEN 0 ELSE Len(c.e))

\* C19: a Set through a pointer root on a path of stored nodes in which a
\* node before the last is an index at or beyond the length of its sequence
\* creates the slot and succeeds, and Get then reads the value set
C19_Vivify ==
    (/\ res.op = "Set" /\ Kind(rootT) = "ptr" /\ AllStored(res.path0)
     /\ \E k \in 1..Len(res.path0) - 1 : BeyondAt(res.path0, k))
    => /\ res.err = "nil"
       /\ GetOn(root, rootT, res.path0).err = "nil"
       /\ GetOn(root, rootT, res.path0).val = res.arg

\* C19's failing case: the Set at [0, X] on a pointer to an empty sequence of
\* records panics and the sequence is as before
C19_Witness ==
    /\ res.op = "Set" /\ rootT = "*[]point" /\ res.before = DPtr(DSlice(<<>>))
    /\ Len(res.path0) = 2 /\ res.path0[1].Key = IntV(0) /\ res.path0[2].KeyString = "X"
    /\ res.err = "panic" /\ root = res.before

\* the last operation was a Next with one key at a path whose type is a map
\* or a growable sequence
NextOnDynamic ==
    /\ res.op = "Next" /\ Len(res.keys) = 1
    /\ Kind(ConcreteType(PathType([root |-> rootT, nodes |-> res.path0]))) \in {"map", "slice"}

\* C20: Next with a key k on a map or growable sequence type, named types
\* with accessor methods included, resolves to the dynamic node bound to k:
\* the result is not nil, its Key is k and its KeyString the text of k, and
\* no node of a path is an unbound dynamic node
C20_ForKeyBound ==
    /\ NextOnDynamic
          => /\ res.err = "nil"
             /\ Len(ref.nodes) = Len(res.path0) + 1
             /\ ref.nodes[Len(ref.nodes)].Key = res.keys[1]
             /\ ref.nodes[Len(ref.nodes)].KeyString = ToStringV(res.keys[1])
    /\ \A i \in 1..Len(ref.nodes) : ~IsDynamic(ref.nodes[i])

\* C20's failing case: on a named map type with a method the key of an entry
\* does not resolve
C20_Witness ==
    /\ NextOnDynamic /\ rootT = "*scores" /\ res.path0 = <<>>
    /\ res.keys[1] = StrV("John") /\ "John" \in DOMAIN root.v.m
    /\ res.err = "NoSuchPath"

\* C20's other failing case: the empty key resolves to the unbound dynamic node
C20_Unbound ==
    /\ NextOnDynamic /\ rootT = "*scores" /\ res.keys[1] = StrV("")
    /\ res.err = "nil" /\ IsDynamic(ref.nodes[Len(ref.nodes)])

\* C20's case where it holds: a map type without methods
C20_Plain ==
    /\ NextOnDynamic /\ rootT = "*map[string]int" /\ res.keys[1] = StrV("John")
    /\ res.err = "nil" /\ ref.nodes[Len(ref.nodes)].Key = StrV("John")

\* the keys of the Path a variable showed in st
KeysShown(st, x) == KeyStrings(st[x].path)

\* C21: Next never modifies a Path that exists: after dst = src.Next(key) every
\* variable but dst shows the root, root type and nodes it showed before (the
\* receiver, and an earlier extension of the same receiver, included); a result
\* that is not nil shows the receiver's root, root type and nodes followed by
\* one node, whose key string is that of the key; an unresolved key gives nil
C21_Immutable ==
    res.op = "RefNext"
        => LET before == res.before
               now == Shown(paths)
               p == before[res.arg.src].path
               q == now[res.arg.dst]
           IN /\ \A x \in RefVars \ {res.arg.dst} : now[x] = before[x]
              /\ res.err = "NoSuchPath" => q.nil
              /\ res.err = "nil"
                    => /\ ~q.nil
                       /\ q.root = before[res.arg.src].root
                       /\ q.path.root = p.root
                       /\ Len(q.path.nodes) = Len(p.nodes) + 1
                       /\ SubSeq(q.path.nodes, 1, Len(p.nodes)) = p.nodes
                       /\ q.path.nodes[Len(q.path.nodes)].KeyString = ToStringV(res.keys[1])

\* C21's case: a and b are two extensions of the same r of three nodes, b made
\* after a; r still shows its three nodes, a ends in First and b in Last
C21_Witness ==
    /\ res.op = "RefNext" /\ res.err = "nil"
    /\ res.arg.src = "r" /\ res.arg.dst = "b"
    /\ ~paths.v["a"].nil
    /\ KeysShown(Shown(paths), "r") = <<"ByName", "John", "Name">>
    /\ KeysShown(Shown(paths), "a") = <<"ByName", "John", "Name", "First">>
    /\ KeysShown(Shown(paths), "b") = <<"ByName", "John", "Name", "Last">>

\* C21's case of an unresolved key: b = r.Next("Nope") is nil while a stays
C21_Absent ==
    /\ res.op = "RefNext" /\ res.err = "NoSuchPath"
    /\ res.arg.src = "r" /\ res.arg.dst = "b"
    /\ ~paths.v["a"].nil /\ paths.v["b"].nil
    /\ Shown(paths)["a"] = res.before["a"]

\* the Nodes the program adds to, once the cache holds them
Built == IF rootT \in DOMAIN typeNodes THEN typeNodes[rootT] ELSE EmptyNodes

\* C22: however a Nodes collection was built by NewNodes and Add, no two nodes
\* of its sequence have the same key string, its table holds under each key
\* string the node of the sequence with that key string and nothing else, and
\* an Add of a node whose key string was present left the sequence and the
\* table as they were (the node added first is kept as it is, read and write
\* functions included), while any other Add put the node at the end
C22_AddInvariant ==
    LET nodes == Built
        q == nodes.InOrder
    IN /\ \A i, j \in 1..Len(q) : q[i].KeyString = q[j].KeyString => i = j
       /\ DOMAIN nodes.ByKey = {q[i].KeyString : i \in 1..Len(q)}
       /\ \A i \in 1..Len(q) : nodes.ByKey[q[i].KeyString] = q[i]
       /\ res.op = "Add"
             => IF res.arg.KeyString \in DOMAIN res.before.ByKey
                THEN nodes = res.before
                ELSE q = Append(res.before.InOrder, res.arg)

\* C22's case: the setter method X added to a collection whose X is the getter
\* method: the getter is still the node of X, with no write function
C22_Witness ==
    /\ res.op = "Add"
    /\ res.arg.KeyString = "X" /\ res.arg.Get = NoFn /\ res.arg.Set.f = "method"
    /\ Len(Built.InOrder) >= 2
    /\ Built.ByKey["X"].Get.f = "method" /\ Built.ByKey["X"].Set = NoFn

\* the place (from 1) of the field called name among the fields of t, 0 when
\* t declares none
FieldPlace(t, name) ==
    IF \E i \in 1..Len(TypeInfo(t).fields) :
          ~TypeInfo(t).fields[i].Anonymous /\ TypeInfo(t).fields[i].Name = name
    THEN CHOOSE i \in 1..Len(TypeInfo(t).fields) :
            ~TypeInfo(t).fields[i].Anonymous /\ TypeInfo(t).fields[i].Name = name
    ELSE 0

RECURSIVE Selects(_, _)
\* whether the selector x.name names a field of a record of type t, declared
\* or promoted from an embedded record
Selects(t, name) ==
    \/ FieldPlace(t, name) # 0
    \/ \E i \in 1..Len(TypeInfo(t).fields) :
          TypeInfo(t).fields[i].Anonymous /\ Selects(TypeInfo(t).fields[i].Type, name)

\* the embedded field of t through which x.name is promoted
Through(t, name) ==
    CHOOSE i \in 1..Len(TypeInfo(t).fields) :
        TypeInfo(t).fields[i].Anonymous /\ Selects(TypeInfo(t).fields[i].Type, name)

RECURSIVE Child(_, _, _)
\* x.name as Go selects it in the record d of type t: the declared field, or
\* the field of that name inside the embedded record: [t, d]
Child(t, d, name) ==
    IF FieldPlace(t, name) # 0
    THEN [t |-> TypeInfo(t).fields[FieldPlace(t, name)].Type, d |-> d.f[FieldPlace(t, name)]]
    ELSE Child(TypeInfo(t).fields[Through(t, name)].Type, d.f[Through(t, name)], name)

RECURSIVE WithChild(_, _, _, _)
\* the record d of type t after x.name = v
WithChild(t, d, name, v) ==
    IF FieldPlace(t, name) # 0
    THEN [d EXCEPT !.f[FieldPlace(t, name)] = v]
    ELSE [d EXCEPT !.f[Through(t, name)] =
                      WithChild(TypeInfo(t).fields[Through(t, name)].Type, @, name, v)]

\* what the getter method called name returns on the record d of type t: [t, d]
Computed(t, d, name) ==
    LET m == CHOOSE m \in Range(MethodSet(t)) : m.Name = name
        b == ValueOf(<<>>, d, t)
    IN [t |-> m.Out, d |-> CallGetter(b.h, m, b.rv)]

\* C23: the read of a node GetTypeNodes offers for a record type, applied to a
\* record of that type, returns the field the node's key selects in the record
\* (for a promoted node the field inside the embedded record), or what the
\* getter method of that name computes, of the node's declared type; the write
\* of a field node through a pointer to the record stores the value in that
\* field and changes nothing else
C23_Sound ==
    /\ res.op = "NodeGet"
          => /\ res.err = "nil"
             /\ res.val.t = res.arg.Type
             /\ IF Selects(rootT, res.arg.KeyString)
                THEN res.val.d = Child(rootT, res.before, res.arg.KeyString).d
                ELSE res.val.d = Computed(rootT, res.before, res.arg.KeyString).d
    /\ (res.op = "NodeSet" /\ Selects(rootT, res.arg.KeyString))
          => /\ res.err = "nil"
             /\ root = WithChild(rootT, res.before, res.arg.KeyString, res.val)

\* C23's failing case: the node ID of derived {Tag; base; Extra}, promoted from
\* base {ID; Tag}, is declared int and reads the string Tag of derived, the
\* parent's field at ID's position in base
C23_Witness ==
    /\ res.op = "NodeGet" /\ rootT = "derived"
    /\ res.arg.KeyString = "ID" /\ res.arg.Type = "int"
    /\ res.err = "nil"
    /\ res.val.t = "string" /\ res.val.d = res.before.f[1]
    /\ res.val.d # Child(rootT, res.before, "ID").d

\* the same in writing: Set on the promoted ID of derived panics, the int
\* handed to the string field Tag
C23_Write ==
    /\ res.op = "NodeSet" /\ rootT = "derived" /\ res.arg.KeyString = "ID"
    /\ res.err = "panic"

\* a promoted node whose position the parent does not have: Extra of deep panics
C23_Crash ==
    /\ res.op = "NodeGet" /\ rootT = "deep" /\ res.arg.KeyString = "Extra"
    /\ res.err = "panic"

\* what holds: the nodes of a record without embedded fields, and the nodes a
\* record with embedded fields declares itself, read and write soundly
C23_Declared ==
    LET own == res.op \in {"NodeGet", "NodeSet"} /\ FieldPlace(rootT, res.arg.KeyString) # 0
    IN /\ (own /\ res.op = "NodeGet")
            => /\ res.err = "nil" /\ res.val.t = res.arg.Type
               /\ res.val.d = Child(rootT, res.before, res.arg.KeyString).d
       /\ (own /\ res.op = "NodeSet")
            => /\ res.err = "nil"
               /\ root = WithChild(rootT, res.before, res.arg.KeyString, res.val)
       /\ (res.op = "NodeGet" /\ ~Selects(rootT, res.arg.KeyString))
            => /\ res.err = "nil" /\ res.val.t = res.arg.Type
               /\ res.val.d = Computed(rootT, res.before, res.arg.KeyString).d

\* the last operation was a Set that passed the first loop and then returned
\* an error
SetRejected ==
    /\ res.op = "Set" /\ res.err \notin {"nil", "panic"}
    /\ res.path0 # <<>> /\ PreCheck(res.path0, 1) = "nil"

\* C24: a Set that returns an error after its first loop has passed leaves
\* the root exactly as it was before the call
C24_Atomic == SetRejected => root = res.before

\* C24's failing case: on &crate{} the Set at [Bag, Items, -1] returns
\* ErrSetNotSupported for the negative index, and the nil pointer Bag now
\* points at a bag whose Items is an empty sequence, no longer nil
C24_Witness ==
    /\ SetRejected /\ rootT = "*crate"
    /\ KeyStrings([nodes |-> res.path0]) = <<"Bag", "Items", "-1">>
    /\ res.err = "ErrSetNotSupported"
    /\ res.before = DPtr(DeepZero("crate"))
    /\ root = DPtr(DStruct(<<DPtr(DStruct(<<DSlice(<<>>)>>))>>))

\* C25: every call of GetTypeNodes returns: whenever a call is in progress,
\* the program that called is later back with no call in progress
C25_Terminates == (conc.th # <<>>) ~> (conc.th = <<>>)

\* C25's case: the call for self, a record that embeds a pointer to itself,
\* has returned; inside it the query for *self was a second call, which found
\* the entry of self in the cache and returned it unfinished, so self has the
\* one key X
C25_Witness ==
    /\ res.op = "RecNodesFor" /\ res.arg.t = "self"
    /\ res.reads = 2
    /\ res.keys = <<"X">>

\* the recursive query of a type in progress: the inner call is about to find
\* the entry the outer call placed in the cache
C25_InProgress ==
    /\ Len(conc.th) = 2
    /\ conc.th[2].pc = "check" /\ conc.th[1].pc = "func"
    /\ conc.th[2].rt = "loop" /\ conc.th[1].rt = "loop"
    /\ "loop" \in DOMAIN typeNodes

\* no call waits for room: the calls in progress stay below MaxDepth
C25_Depth == Len(conc.th) < MaxDepth

\* the call by call run returns the key strings the function GetTypeNodes gives
\* on the cache the call started from
C25_SameKeys ==
    [][(res'.op = "RecNodesFor" /\ res.op = "RecCall") =>
          res'.keys = NodesKeyStrings(GetTypeNodes(res.before, res.arg.t).nodes)]_vars

====
